---- MODULE Spec2Model ----
(***************************************************************************)
(* A model of the new-pkl interpreter: the evaluator of src/table.rs       *)
(* (PklTable, ast_to_table), the interpreter front of src/lib.rs (Pkl) and *)
(* the recursive-descent parser of src/parser.rs (parse_pkl).              *)
(*                                                                         *)
(* Specification Spec follows one interpreter: get/set/remove calls, and   *)
(* one parse call whose ast_to_table loop runs one statement per step,     *)
(* nested through relative imports.  Specification SpecParser runs         *)
(* parse_pkl over a token sequence, one iteration of its loop per step.    *)
(***************************************************************************)
EXTENDS Integers, Sequences, FiniteSets, TLC

VARIABLES
    table,    \* Pkl.table.variables of the interpreter (lib.rs:15, table.rs:75)
    stack,    \* the running ast_to_table calls, innermost last: the call made
              \* by Pkl::parse and below it those made through imports
    result,   \* what the interpreter's parse call returned
    parsed,   \* whether parse has been called on this interpreter
    calls,    \* history: the get/set/remove calls since the table was last
              \* assigned, each with what it returned
    base,     \* history: the table when `calls` was last emptied
    source,   \* lexer: the characters of the text given to parse, where
              \* the lexer is part of the run (else empty)
    tokens,   \* parser: the token sequence the lexer yields
    pos,      \* parser: number of tokens consumed
    statements, \* parser: parse_pkl's `statements`
    is_newline, \* parser: parse_pkl's `is_newline`
    presult   \* parser: what parse_pkl returned

vars == <<table, stack, result, parsed, calls, base,
          source, tokens, pos, statements, is_newline, presult>>
evalVars == <<table, stack, result, parsed, calls, base>>
parserVars == <<source, tokens, pos, statements, is_newline, presult>>

----------------------------------------------------------------------------
(* Bounds of the model. *)

MaxStmts == 2      \* statements in a document given to ast_to_table
MaxCalls == 2      \* get/set/remove calls recorded in `calls`
MaxDepth == 4      \* nested ast_to_table calls (import nesting + 1)
LineLen == 40      \* bytes of source one statement of a document occupies

----------------------------------------------------------------------------
(* Results and options. *)

Ok(v) == [kind |-> "Ok", val |-> v]
Err(m, s) == [kind |-> "Err", msg |-> m, span |-> s]
Panic(m) == [kind |-> "Panic", msg |-> m]
NoResult == [kind |-> "NoResult"]

Some(v) == [some |-> TRUE, val |-> v]
None == [some |-> FALSE]

EmptyMap == <<>>

(* HashMap::insert on a map held as a function: the old entry is replaced. *)
MapInsert(m, k, v) == [x \in DOMAIN m \cup {k} |-> IF x = k THEN v ELSE m[x]]
MapRemove(m, k) == [x \in DOMAIN m \ {k} |-> m[x]]
MapGet(m, k) == IF k \in DOMAIN m THEN Some(m[k]) ELSE None

----------------------------------------------------------------------------
(* PklValue (table.rs:38-71).  Each variant names its payload differently, *)
(* so that values of different variants are never compared field by field. *)

BoolV(b) == [tag |-> "Bool", b |-> b]
IntV(i) == [tag |-> "Int", i |-> i]
FloatV(f) == [tag |-> "Float", f |-> f]
StringV(s) == [tag |-> "String", s |-> s]
ListV(l) == [tag |-> "List", items |-> l]
ObjectV(h) == [tag |-> "Object", fields |-> h]
ClassInstanceV(a, h) == [tag |-> "ClassInstance", name |-> a, fields |-> h]

----------------------------------------------------------------------------
(* The syntax tree (parser.rs:14-105, and the shapes table.rs matches on). *)

Constant(name, expr, span) ==
    [kind |-> "Constant", name |-> name, expr |-> expr, span |-> span]
Import(value, local_name, span) ==
    [kind |-> "Import", value |-> value, local_name |-> local_name, span |-> span]

Identifier(id, span) == [kind |-> "Identifier", id |-> id, span |-> span]
Value(v) == [kind |-> "Value", value |-> v]
RECURSIVE Slice(_)
Slice(raw) == IF raw = <<>> THEN "" ELSE raw[1] \o Slice(Tail(raw))

MemberExpression(b, property, span) ==
    [kind |-> "MemberExpression", base |-> b, property |-> property, span |-> span]

ExprHash(fields, span) == [fields |-> fields, span |-> span]

AstBool(b, span) == [tag |-> "Bool", b |-> b, span |-> span]
AstInt(i, span) == [tag |-> "Int", i |-> i, span |-> span]
AstFloat(f, span) == [tag |-> "Float", f |-> f, span |-> span]
AstString(s, span) == [tag |-> "String", s |-> s, span |-> span]
AstMultiLineString(s, span) == [tag |-> "MultiLineString", s |-> s, span |-> span]
AstList(values, span) == [tag |-> "List", values |-> values, span |-> span]
AstObject(o) == [tag |-> "Object", hash |-> o, span |-> o.span]
AstClassInstance(a, o, span) ==
    [tag |-> "ClassInstance", name |-> a, hash |-> o, span |-> span]
AstAmendingObject(a, o, span) ==
    [tag |-> "AmendingObject", name |-> a, hash |-> o, span |-> span]
AstAmendedObject(a, o, span) ==
    [tag |-> "AmendedObject", inner |-> a, hash |-> o, span |-> span]

(***************************************************************************)
(* The String property table (table/string_api.rs).  A string is the      *)
(* sequence of the bytes of its UTF-8 text, as a Rust str is.              *)
(***************************************************************************)
CharV(c) == [tag |-> "Char", c |-> c]

PAD_BYTE == 61

(* The alphabet of BASE64_STANDARD: A-Z, a-z, 0-9, + and /. *)
Symbol(v) ==
    IF v < 26 THEN 65 + v
    ELSE IF v < 52 THEN 97 + (v - 26)
    ELSE IF v < 62 THEN 48 + (v - 52)
    ELSE IF v = 62 THEN 43 ELSE 47

(* The value of a symbol, -1 for a byte that is none. *)
SymbolValue(c) ==
    IF \E v \in 0..63 : Symbol(v) = c THEN CHOOSE v \in 0..63 : Symbol(v) = c ELSE -1

ByteAt(b, i) == IF i <= Len(b) THEN b[i] ELSE 0

(* BASE64_STANDARD.encode: four symbols for every three bytes, the last    *)
(* group filled with padding.                                              *)
base64_encode(b) ==
    [k \in 1..(4 * ((Len(b) + 2) \div 3)) |->
        LET i == 3 * ((k - 1) \div 4) + 1
            j == (k - 1) % 4
        IN  IF j = 0 THEN Symbol(ByteAt(b, i) \div 4)
            ELSE IF j = 1
            THEN Symbol((ByteAt(b, i) % 4) * 16 + ByteAt(b, i + 1) \div 16)
            ELSE IF j = 2
            THEN IF i + 1 > Len(b) THEN PAD_BYTE
                 ELSE Symbol((ByteAt(b, i + 1) % 16) * 4 + ByteAt(b, i + 2) \div 64)
            ELSE IF i + 2 > Len(b) THEN PAD_BYTE
                 ELSE Symbol(ByteAt(b, i + 2) % 64)]

(* The bytes of symbols with m symbols before the padding. *)
DecodedBytes(s, m) ==
    [j \in 1..((m * 6) \div 8) |->
        LET g == 4 * ((j - 1) \div 3)
            r == (j - 1) % 3
        IN  IF r = 0
            THEN SymbolValue(s[g + 1]) * 4 + SymbolValue(s[g + 2]) \div 16
            ELSE IF r = 1
            THEN (SymbolValue(s[g + 2]) % 16) * 16 + SymbolValue(s[g + 3]) \div 4
            ELSE (SymbolValue(s[g + 3]) % 4) * 64 + SymbolValue(s[g + 4])]

(* BASE64_STANDARD.decode: padding is required and canonical, and the     *)
(* bits of the last symbol that belong to no byte must be zero.  A        *)
(* padding byte is allowed only as the third or fourth byte of the last   *)
(* group, with padding alone after it.  An input of 4k + 1 bytes is        *)
(* refused for its length when every byte is a symbol of the alphabet, and *)
(* for its first byte that is none (a padding byte included) otherwise.    *)
base64_decode(s) ==
    LET n == Len(s)
        quad == IF n = 0 THEN 1 ELSE 4 * ((n - 1) \div 4) + 1
        bad(k) == IF s[k] = PAD_BYTE
                  THEN k < quad + 2 \/ \E j \in (k + 1)..n : s[j] # PAD_BYTE
                  ELSE SymbolValue(s[k]) = -1
        pads == Cardinality({k \in 1..n : s[k] = PAD_BYTE})
        m == n - (quad - 1) - pads
    IN  IF n % 4 = 1 /\ \E k \in 1..n : s[k] = PAD_BYTE \/ SymbolValue(s[k]) = -1
        THEN Err("InvalidByte", <<>>)
        ELSE IF n % 4 = 1 THEN Err("InvalidLength", <<>>)
        ELSE IF \E k \in 1..n : bad(k) THEN Err("InvalidByte", <<>>)
        ELSE IF n % 4 # 0 THEN Err("InvalidPadding", <<>>)
        ELSE IF \/ m = 2 /\ (SymbolValue(s[n - pads]) % 16) # 0
                \/ m = 3 /\ (SymbolValue(s[n - pads]) % 4) # 0
        THEN Err("InvalidLastSymbol", <<>>)
        ELSE Ok(DecodedBytes(s, n - pads))

(* The length of the UTF-8 character that begins at b[i], 0 when the      *)
(* bytes there are no character (core::str::from_utf8: no overlong form, *)
(* no surrogate, nothing above U+10FFFF).                                  *)
CharLen(b, i) ==
    LET c == b[i]
        in(j, lo, hi) == j <= Len(b) /\ b[j] \in lo..hi
        cont(j) == in(j, 128, 191)
    IN  IF c < 128 THEN 1
        ELSE IF c \in 194..223 THEN (IF cont(i + 1) THEN 2 ELSE 0)
        ELSE IF c = 224
        THEN (IF in(i + 1, 160, 191) /\ cont(i + 2) THEN 3 ELSE 0)
        ELSE IF c \in (225..236) \cup (238..239)
        THEN (IF cont(i + 1) /\ cont(i + 2) THEN 3 ELSE 0)
        ELSE IF c = 237
        THEN (IF in(i + 1, 128, 159) /\ cont(i + 2) THEN 3 ELSE 0)
        ELSE IF c = 240
        THEN (IF in(i + 1, 144, 191) /\ cont(i + 2) /\ cont(i + 3) THEN 4 ELSE 0)
        ELSE IF c \in 241..243
        THEN (IF cont(i + 1) /\ cont(i + 2) /\ cont(i + 3) THEN 4 ELSE 0)
        ELSE IF c = 244
        THEN (IF in(i + 1, 128, 143) /\ cont(i + 2) /\ cont(i + 3) THEN 4 ELSE 0)
        ELSE 0

(* The end of the longest prefix of whole characters, from a character    *)
(* boundary i on (Utf8Error::valid_up_to).                                 *)
RECURSIVE valid_up_to(_, _)
valid_up_to(b, i) ==
    IF i > Len(b) THEN Len(b)
    ELSE CHOOSE r \in {IF n = 0 THEN i - 1 ELSE valid_up_to(b, i + n) :
                         n \in {CharLen(b, i)}} : TRUE

(* core::str::from_utf8. *)
from_utf8(b) ==
    CHOOSE r \in {IF x = Len(b) THEN Ok(b) ELSE Err(<<"Utf8Error", x>>, <<>>) :
                    x \in {valid_up_to(b, 1)}} : TRUE

(* The code point of the character of n bytes at b[i]. *)
CodePoint(b, i, n) ==
    IF n = 1 THEN b[i]
    ELSE IF n = 2 THEN (b[i] % 32) * 64 + (b[i + 1] % 64)
    ELSE IF n = 3 THEN (b[i] % 16) * 4096 + (b[i + 1] % 64) * 64 + (b[i + 2] % 64)
    ELSE (b[i] % 8) * 262144 + (b[i + 1] % 64) * 4096
            + (b[i + 2] % 64) * 64 + (b[i + 3] % 64)

(* str::chars: the code points of a text from position i on. *)
RECURSIVE chars_from(_, _)
chars_from(s, i) ==
    IF i > Len(s) THEN <<>>
    ELSE CHOOSE r \in {<<CodePoint(s, i, n)>> \o chars_from(s, i + n) :
                         n \in {CharLen(s, i)}} : TRUE
chars(s) == chars_from(s, 1)

(* char::is_whitespace, which str::trim removes at both ends. *)
is_whitespace(c) ==
    c \in (9..13) \cup {32, 133, 160, 5760, 8232, 8233, 8239, 8287, 12288}
            \cup (8192..8202)

NotYetSupported(property, range) ==
    Err(<<property, "String API method not yet supported">>, range)

(* Mutant: the decoded bytes are taken as text without validation. *)
match_string_props_api_unchecked(s, property, range) ==
    IF property = "base64" THEN Ok(StringV(base64_encode(s)))
    ELSE IF property = "base64Decoded"
    THEN CHOOSE r \in
            {IF buf.kind = "Err"
             THEN Err(<<"Failed to decode base64", buf.msg>>, range)
             ELSE Ok(StringV(buf.val)) :
             buf \in {base64_decode(s)}} : TRUE
    ELSE Err(<<"String does not possess property", property>>, range)

(* match_string_props_api (string_api.rs:6-84). *)
match_string_props_api(s, property, range) ==
    CASE property = "length" -> Ok(IntV(Len(s)))
      [] property = "lastIndex" -> Ok(IntV(IF Len(s) = 0 THEN -1 ELSE Len(s) - 1))
      [] property = "isEmpty" -> Ok(BoolV(Len(s) = 0))
      [] property = "isBlank" ->
            Ok(BoolV(\A k \in DOMAIN chars(s) : is_whitespace(chars(s)[k])))
      [] property \in {"isRegex", "md5", "sha1", "sha256", "sha256Int"} ->
            NotYetSupported(property, range)
      [] property = "base64" -> Ok(StringV(base64_encode(s)))
      [] property = "base64Decoded" ->
            CHOOSE r \in
              {IF buf.kind = "Err"
               THEN Err(<<"Failed to decode base64", buf.msg>>, range)
               ELSE CHOOSE t \in
                      {IF text.kind = "Err"
                       THEN Err(<<"Invalid UTF-8 sequence", text.msg>>, range)
                       ELSE Ok(StringV(text.val)) :
                       text \in {from_utf8(buf.val)}} : TRUE :
               buf \in {base64_decode(s)}} : TRUE
      [] property = "chars" ->
            Ok(ListV([k \in DOMAIN chars(s) |-> CharV(chars(s)[k])]))
      [] property = "codePoints" ->
            Ok(ListV([k \in DOMAIN chars(s) |-> IntV(chars(s)[k])]))
      [] OTHER -> Err(<<"String does not possess property", property>>, range)

----------------------------------------------------------------------------
(* 64-bit quantities.  An i64, a u64 or the integer held by an f64 does    *)
(* not fit the integers of the model checker, so a magnitude is held as    *)
(* its digits in base 2^15, least significant first and without leading   *)
(* zero digits; the operations below are exact.  An operand is evaluated   *)
(* once, by binding it in a one-element set, before it is worked on.       *)

Radix15 == 2^15

Trim(a) ==
    IF \A k \in DOMAIN a : a[k] = 0 THEN <<>>
    ELSE SubSeq(a, 1, CHOOSE k \in DOMAIN a :
                        a[k] # 0 /\ \A j \in (k + 1)..Len(a) : a[j] = 0)
Norm(a) == CHOOSE r \in {Trim(x) : x \in {a}} : TRUE

RECURSIVE Wide(_)
Wide(n) == IF n = 0 THEN <<>> ELSE <<n % Radix15>> \o Wide(n \div Radix15)

Digit(a, k) == IF k <= Len(a) THEN a[k] ELSE 0

(* The digits lo..hi of a + b and the carry out of them, given the carry   *)
(* into digit lo: the lower half of the digits first, then the upper half  *)
(* with the carry of the lower.                                            *)
RECURSIVE AddFrom(_, _, _, _, _)
AddUpper(a, b, mid, hi, low) ==
    CHOOSE r \in {[d |-> low.d \o high.d, c |-> high.c] :
                    high \in {AddFrom(a, b, mid + 1, hi, low.c)}} : TRUE
AddFrom(a, b, lo, hi, carry) ==
    IF lo = hi
    THEN CHOOSE r \in {[d |-> <<s % Radix15>>, c |-> s \div Radix15] :
                         s \in {Digit(a, lo) + Digit(b, lo) + carry}} : TRUE
    ELSE CHOOSE r \in {AddUpper(a, b, (lo + hi) \div 2, hi, low) :
                         low \in {AddFrom(a, b, lo, (lo + hi) \div 2, carry)}} : TRUE
AddDigits(x, y, n) ==
    IF n = 0 THEN <<>>
    ELSE CHOOSE r \in {sum.d \o (IF sum.c = 0 THEN <<>> ELSE <<sum.c>>) :
                         sum \in {AddFrom(x, y, 1, n, 0)}} : TRUE
Add(a, b) ==
    CHOOSE r \in {AddDigits(x, y, IF Len(x) > Len(y) THEN Len(x) ELSE Len(y)) :
                    x \in {a}, y \in {b}} : TRUE

(* a * m for a single digit m < 2^15, by halves in the same way. *)
RECURSIVE MulDigitFrom(_, _, _, _, _)
MulDigitUpper(a, m, mid, hi, low) ==
    CHOOSE r \in {[d |-> low.d \o high.d, c |-> high.c] :
                    high \in {MulDigitFrom(a, m, mid + 1, hi, low.c)}} : TRUE
MulDigitFrom(a, m, lo, hi, carry) ==
    IF lo = hi
    THEN CHOOSE r \in {[d |-> <<s % Radix15>>, c |-> s \div Radix15] :
                         s \in {a[lo] * m + carry}} : TRUE
    ELSE CHOOSE r \in {MulDigitUpper(a, m, (lo + hi) \div 2, hi, low) :
                         low \in {MulDigitFrom(a, m, lo, (lo + hi) \div 2, carry)}} : TRUE
MulDigits(x, m) ==
    IF x = <<>> THEN <<>>
    ELSE CHOOSE r \in {Norm(prod.d \o <<prod.c>>) :
                         prod \in {MulDigitFrom(x, m, 1, Len(x), 0)}} : TRUE
MulDigit(a, m) == CHOOSE r \in {MulDigits(x, m) : x \in {a}} : TRUE

RECURSIVE MulBy(_, _)
MulBy(a, b) ==
    IF b = <<>> THEN <<>>
    ELSE IF Len(b) = 1 THEN MulDigit(a, b[1])
    ELSE CHOOSE r \in
           {Norm(Add(MulBy(a, SubSeq(b, 1, h)),
                     [k \in 1..h |-> 0] \o MulBy(a, SubSeq(b, h + 1, Len(b))))) :
            h \in {Len(b) \div 2}} : TRUE
Mul(a, b) == CHOOSE r \in {MulBy(x, y) : x \in {a}, y \in {b}} : TRUE

RECURSIVE LessFrom(_, _, _)
LessFrom(a, b, k) ==
    IF k = 0 THEN FALSE
    ELSE IF a[k] # b[k] THEN a[k] < b[k]
    ELSE LessFrom(a, b, k - 1)
Less(a, b) ==
    \E x \in {a}, y \in {b} :
        IF Len(x) # Len(y) THEN Len(x) < Len(y) ELSE LessFrom(x, y, Len(x))

IsOdd(a) == a # <<>> /\ a[1] % 2 = 1

(* Bit j of a, the least significant being bit 0. *)
Bit(a, j) == (Digit(a, j \div 15 + 1) \div 2^(j % 15)) % 2

BitLen(a) ==
    IF a = <<>> THEN 0
    ELSE 15 * (Len(a) - 1) + CHOOSE k \in 1..15 : a[Len(a)] \div 2^k = 0
                                                  /\ a[Len(a)] \div 2^(k - 1) # 0

(* a * 2^s and a \div 2^s. *)
Shl(a, s) ==
    IF a = <<>> THEN <<>>
    ELSE [k \in 1..(s \div 15) |-> 0] \o MulDigit(a, 2^(s % 15))
Shr(a, s) ==
    LET b == SubSeq(a, s \div 15 + 1, Len(a))
        r == s % 15
    IN  Norm([k \in 1..Len(b) |->
                (b[k] \div 2^r) + (Digit(b, k + 1) % 2^r) * 2^(15 - r)])

RECURSIVE Pow(_, _)
Pow(radix, k) ==
    IF k = 0 THEN Wide(1)
    ELSE IF k % 2 = 1 THEN MulDigit(Pow(radix, k - 1), radix)
    ELSE CHOOSE r \in {MulBy(h, h) : h \in {Pow(radix, k \div 2)}} : TRUE

(* The magnitude written by a sequence of digits in a base up to 16: the   *)
(* two halves of the sequence are combined, which keeps the evaluation     *)
(* shallow.                                                                *)
RECURSIVE FromDigits(_, _)
Halves(ds, radix) ==
    IF ds = <<>> THEN <<>>
    ELSE IF Len(ds) = 1 THEN Wide(ds[1])
    ELSE LET h == Len(ds) \div 2
             hi == FromDigits(SubSeq(ds, 1, h), radix)
             lo == FromDigits(SubSeq(ds, h + 1, Len(ds)), radix)
         IN  Norm(Add(Mul(hi, Pow(radix, Len(ds) - h)), lo))
FromDigits(ds, radix) == CHOOSE r \in {Halves(x, radix) : x \in {ds}} : TRUE
Dec(ds) == FromDigits(ds, 10)

(* a \div m and a % m for a single digit m < 2^15: long division of the    *)
(* digits hi down to lo with the remainder rem carried in, the upper half  *)
(* of the digits first.  q holds the quotient digits lo..hi.               *)
RECURSIVE DivDigitFrom(_, _, _, _, _)
DivDigitLower(a, m, lo, mid, high) ==
    CHOOSE res \in {[q |-> low.q \o high.q, r |-> low.r] :
                      low \in {DivDigitFrom(a, m, lo, mid, high.r)}} : TRUE
DivDigitFrom(a, m, lo, hi, rem) ==
    IF lo > hi THEN [q |-> <<>>, r |-> rem]
    ELSE IF lo = hi
    THEN CHOOSE res \in {[q |-> <<cur \div m>>, r |-> cur % m] :
                           cur \in {rem * Radix15 + a[lo]}} : TRUE
    ELSE CHOOSE res \in {DivDigitLower(a, m, lo, (lo + hi) \div 2, high) :
                           high \in {DivDigitFrom(a, m, (lo + hi) \div 2 + 1, hi, rem)}} : TRUE
DivDigit(a, m) == Norm(DivDigitFrom(a, m, 1, Len(a), 0).q)
ModDigit(a, m) == DivDigitFrom(a, m, 1, Len(a), 0).r

(* An i64: its sign and its magnitude. *)
I64(neg, mag) == [neg |-> neg, mag |-> mag]
I64Max == <<2^15 - 1, 2^15 - 1, 2^15 - 1, 2^15 - 1, 2^3 - 1>>   \* 2^63 - 1
U64Max == <<2^15 - 1, 2^15 - 1, 2^15 - 1, 2^15 - 1, 2^4 - 1>>   \* 2^64 - 1

(* `as f64` on a non-negative integer, and the rounding of an f64 product  *)
(* of integers: the nearest value with 53 significant bits, ties to even   *)
(* (the last bit shifted out decides, then the bits below it, then the     *)
(* parity of what is kept).                                                *)
round_f64(a) ==
    IF BitLen(a) <= 53 THEN a
    ELSE LET s == BitLen(a) - 53
             q == Shr(a, s)
             guard == Bit(a, s - 1) = 1
             sticky == \E j \in 0..(s - 2) : Bit(a, j) = 1
             up == guard /\ (sticky \/ IsOdd(q))
         IN  Shl(IF up THEN Add(q, Wide(1)) ELSE q, s)

(* `as u64` on a non-negative integral f64: saturating. *)
as_u64(a) == IF Less(U64Max, a) THEN U64Max ELSE a

(* An f64 value: NaN, an infinity, or a finite value held as its sign and  *)
(* the odd mantissa m and the exponent e of its magnitude m * 2^e (zero    *)
(* has no mantissa).                                                       *)
F64(class, neg, m, e) == [class |-> class, neg |-> neg, m |-> m, e |-> e]
NAN == F64("NaN", FALSE, <<>>, 0)
INFINITY == F64("Infinite", FALSE, <<>>, 0)
NEG_INFINITY == F64("Infinite", TRUE, <<>>, 0)

TrailingZeros(a) ==
    CHOOSE k \in 0..(BitLen(a) - 1) :
        Bit(a, k) = 1 /\ \A j \in 0..(k - 1) : Bit(a, j) = 0
Finite(neg, m, e) ==
    IF m = <<>> THEN F64("Finite", neg, <<>>, 0)
    ELSE CHOOSE r \in {F64("Finite", neg, Shr(m, z), e + z) :
                         z \in {TrailingZeros(m)}} : TRUE

(* The f64 nearest to (q + d) * 2^(-s), a tie going to the even mantissa,  *)
(* where 0 <= d < 1 and d > 0 exactly when sticky: 53 bits are kept, fewer *)
(* below 2^-1022, where the values are the multiples of 2^-1074; a result  *)
(* of 2^1024 or more is the infinity, whether or not bits are dropped.  r  *)
(* is the number of bits dropped.                                          *)
nearest_f64(neg, q, sticky, s) ==
    LET r == IF BitLen(q) - 1 - s >= -1022 THEN BitLen(q) - 53 ELSE s - 1074
    IN  IF q = <<>> THEN Finite(neg, <<>>, 0)
        ELSE IF r <= 0
        THEN IF BitLen(q) - s > 1024 THEN F64("Infinite", neg, <<>>, 0)
             ELSE Finite(neg, q, -s)
        ELSE CHOOSE v \in
               {IF BitLen(m) + r - s > 1024 THEN F64("Infinite", neg, <<>>, 0)
                ELSE Finite(neg, m, r - s) :
                m \in {IF /\ Bit(q, r - 1) = 1
                          /\ \/ sticky
                             \/ \E j \in 0..(r - 2) : Bit(q, j) = 1
                             \/ Bit(q, r) = 1
                       THEN Add(Shr(q, r), Wide(1)) ELSE Shr(q, r)}} : TRUE

(* a \div 5^k, and whether the division left a remainder. *)
RECURSIVE DivPow5(_, _, _)
DivPow5(a, k, sticky) ==
    IF k = 0 THEN [q |-> a, sticky |-> sticky]
    ELSE CHOOSE res \in
           {DivPow5(Norm(d.q), k - (IF k >= 6 THEN 6 ELSE 1), sticky \/ d.r # 0) :
            d \in {DivDigitFrom(a, IF k >= 6 THEN 5^6 ELSE 5, 1, Len(a), 0)}} : TRUE

(* The f64 nearest to d * 10^x for an integer d (core::num::dec2flt: the   *)
(* result is correctly rounded).  10^x is 5^x * 2^x; for x < 0 the         *)
(* quotient by 5^(-x) is taken with at least 64 bits.                      *)
decimal_to_f64(neg, d, x) ==
    IF d = <<>> THEN Finite(neg, <<>>, 0)
    ELSE IF x > 310 THEN F64("Infinite", neg, <<>>, 0)
    ELSE IF x + BitLen(d) < -330 THEN Finite(neg, <<>>, 0)
    ELSE IF x >= 0 THEN nearest_f64(neg, Mul(d, Pow(5, x)), FALSE, -x)
    ELSE CHOOSE v \in
           {nearest_f64(neg, res.q, res.sticky, 64 - 4 * x) :
            res \in {DivPow5(Shl(d, 64 - 3 * x), -x, FALSE)}} : TRUE

----------------------------------------------------------------------------
(* Unit names.  A property that may name a unit is held as the tuple of    *)
(* its characters, so that to_lowercase is computed.                       *)

UpperCase == <<"A", "B", "C", "D", "E", "F", "G", "H", "I", "J", "K", "L", "M",
               "N", "O", "P", "Q", "R", "S", "T", "U", "V", "W", "X", "Y", "Z">>
LowerCase == <<"a", "b", "c", "d", "e", "f", "g", "h", "i", "j", "k", "l", "m",
               "n", "o", "p", "q", "r", "s", "t", "u", "v", "w", "x", "y", "z">>

(* str::to_lowercase on ASCII text. *)
to_lowercase(s) ==
    [k \in DOMAIN s |->
        IF \E j \in 1..26 : UpperCase[j] = s[k]
        THEN LowerCase[CHOOSE j \in 1..26 : UpperCase[j] = s[k]]
        ELSE s[k]]

(* data_size::Unit::from_str (data_size.rs:25-40). *)
data_size_from_str(s) ==
    LET l == to_lowercase(s)
    IN  CASE l = <<"b">> -> Some("B")
          [] l = <<"k", "b">> -> Some("KB")
          [] l = <<"m", "b">> -> Some("MB")
          [] l = <<"g", "b">> -> Some("GB")
          [] l = <<"t", "b">> -> Some("TB")
          [] l = <<"p", "b">> -> Some("PB")
          [] l = <<"k", "i", "b">> -> Some("KiB")
          [] l = <<"m", "i", "b">> -> Some("MiB")
          [] l = <<"g", "i", "b">> -> Some("GiB")
          [] l = <<"t", "i", "b">> -> Some("TiB")
          [] l = <<"p", "i", "b">> -> Some("PiB")
          [] OTHER -> None

(* duration::Unit::from_str (duration.rs:45-56). *)
duration_from_str(s) ==
    LET l == to_lowercase(s)
    IN  CASE l = <<"n", "s">> -> Some("NS")
          [] l = <<"u", "s">> -> Some("US")
          [] l = <<"m", "s">> -> Some("MS")
          [] l = <<"s">> -> Some("S")
          [] l = <<"m", "i", "n">> -> Some("MIN")
          [] l = <<"h">> -> Some("H")
          [] l = <<"d">> -> Some("D")
          [] OTHER -> None

(* impl Display for duration::Unit (duration.rs:119-132). *)
unit_to_string(unit) ==
    CASE unit = "NS" -> "ns"
      [] unit = "US" -> "us"
      [] unit = "MS" -> "ms"
      [] unit = "S" -> "s"
      [] unit = "MIN" -> "min"
      [] unit = "H" -> "h"
      [] unit = "D" -> "d"

----------------------------------------------------------------------------
(* Data sizes (data_size.rs:43-77) and durations (duration.rs:59-117).     *)
(* An f64 that holds an integer is held as its sign and magnitude.         *)

DataSizeV(byte) == [tag |-> "DataSize", byte |-> byte]
DurationV(d) == [tag |-> "Duration", dur |-> d]

(* `int as f64` (i64 to f64: nearest, ties to even). *)
as_f64(int) == [neg |-> int.neg, mag |-> round_f64(int.mag)]

(* The f64 product value * f1 * f2 * ..., rounded after each factor. *)
RECURSIVE times_f64(_, _)
times_f64(mag, factors) ==
    IF factors = <<>> THEN mag
    ELSE times_f64(round_f64(Mul(mag, factors[1])), Tail(factors))

Thousand == Wide(1000)
Kibi == Wide(1024)

(* The factors of the product Byte::from_value_and_unit forms for a unit   *)
(* (data_size.rs:59-71): one literal for a decimal unit, a chain of        *)
(* 1_024.0 for a binary one.                                               *)
byte_factors(unit) ==
    CASE unit = "B" -> <<>>
      [] unit = "KB" -> <<Thousand>>
      [] unit = "MB" -> <<Pow(1000, 2)>>
      [] unit = "GB" -> <<Pow(1000, 3)>>
      [] unit = "TB" -> <<Pow(1000, 4)>>
      [] unit = "PB" -> <<Pow(1000, 5)>>
      [] unit = "KiB" -> <<Kibi>>
      [] unit = "MiB" -> <<Kibi, Kibi>>
      [] unit = "GiB" -> <<Kibi, Kibi, Kibi>>
      [] unit = "TiB" -> <<Kibi, Kibi, Kibi, Kibi>>
      [] unit = "PiB" -> <<Kibi, Kibi, Kibi, Kibi, Kibi>>

(* Byte::from_value_and_unit (data_size.rs:58-76): the f64 product, then   *)
(* `as u64`, which takes a negative value to 0 and saturates.              *)
from_value_and_unit(value, unit) ==
    LET bytes == times_f64(value.mag, byte_factors(unit))
    IN  [bytes |-> IF value.neg THEN <<>> ELSE as_u64(bytes)]

Giga == Wide(1000000000)

(* The f64 literals 10e-9, 10e-6 and 10e-3 (duration.rs:101-103): each is  *)
(* the f64 nearest to 10^-8, 10^-5 and 10^-2, a 53-bit mantissa m with the *)
(* value m * 2^(-k).                                                       *)
TenNanos == [m |-> <<3130, 17505, 26171, 171>>, k |-> 79]
TenMicros == [m |-> <<26865, 4550, 25302, 167>>, k |-> 69]
TenMillis == [m |-> <<5243, 3932, 27525, 163>>, k |-> 59]

(* The f64 seconds from_int_and_unit passes to from_secs_f64               *)
(* (duration.rs:100-108), as m * 2^(-k): the product of the value and the  *)
(* literal of the unit, rounded to 53 bits after each factor.              *)
secs_f64(mag, unit) ==
    CASE unit = "NS" -> [m |-> round_f64(Mul(mag, TenNanos.m)), k |-> TenNanos.k]
      [] unit = "US" -> [m |-> round_f64(Mul(mag, TenMicros.m)), k |-> TenMicros.k]
      [] unit = "MS" -> [m |-> round_f64(Mul(mag, TenMillis.m)), k |-> TenMillis.k]
      [] unit = "S" -> [m |-> mag, k |-> 0]
      [] unit = "MIN" -> [m |-> times_f64(mag, <<Wide(60)>>), k |-> 0]
      [] unit = "H" -> [m |-> times_f64(mag, <<Wide(60), Wide(60)>>), k |-> 0]
      [] unit = "D" ->
            [m |-> times_f64(mag, <<Wide(60), Wide(60), Wide(24)>>), k |-> 0]

(* a / 2^k as the nearest integer, a tie going to the even one. *)
round_shift(a, k) ==
    IF k = 0 THEN a
    ELSE LET q == Shr(a, k)
             guard == Bit(a, k - 1) = 1
             sticky == \E j \in 0..(k - 2) : Bit(a, j) = 1
         IN  IF guard /\ (sticky \/ IsOdd(q)) THEN Add(q, Wide(1)) ELSE q

(* StdDuration::from_secs_f64 on a non-negative value: the duration in     *)
(* whole nanoseconds (the nearest, a tie going to the even one), a panic   *)
(* from 2^64 seconds on.                                                   *)
from_secs_f64(secs) ==
    IF Less(secs.m, Shl(Wide(1), 64 + secs.k))
    THEN Ok(round_shift(Mul(secs.m, Giga), secs.k))
    ELSE Panic(<<"can not convert float seconds to Duration: value is either too big or NaN">>)

(* Duration::from_int_and_unit (duration.rs:91-116). *)
from_int_and_unit(value, unit) ==
    LET initial_value == IntV(value)
        is_negative == value.neg
        duration == from_secs_f64(secs_f64(as_f64(value).mag, unit))
    IN  IF duration.kind = "Panic" THEN duration
        ELSE Ok([duration |-> duration.val, unit |-> unit,
                 initial_value |-> initial_value, is_negative |-> is_negative])

(* match_duration_props_api (duration.rs:8-28). *)
match_duration_props_api(duration, property, range) ==
    CASE property = "value" -> Ok(duration.initial_value)
      [] property = "unit" -> Ok(StringV(unit_to_string(duration.unit)))
      [] property = "isPositive" -> Ok(BoolV(~duration.is_negative))
      [] OTHER -> Err(<<"DataSize does not possess property", property>>, range)

(* match_int_props_api: a duration unit first, then a data-size unit, and  *)
(* no other property.                                                      *)
match_int_props_api(int, property, range) ==
    IF duration_from_str(property).some
    THEN LET d == from_int_and_unit(int, duration_from_str(property).val)
         IN  IF d.kind = "Ok" THEN Ok(DurationV(d.val)) ELSE d
    ELSE IF data_size_from_str(property).some
    THEN Ok(DataSizeV(from_value_and_unit(as_f64(int),
                                          data_size_from_str(property).val)))
    ELSE Err(<<"Int does not possess property", Slice(property)>>, range)

(* The f64 product x * y (IEEE 754: NaN from a NaN and from infinity times *)
(* zero, an infinity from an infinity, else the nearest value, ties to     *)
(* even).                                                                  *)
mul_f64(x, y) ==
    IF \/ x.class = "NaN" \/ y.class = "NaN"
       \/ (x.class = "Infinite" /\ y.class = "Finite" /\ y.m = <<>>)
       \/ (y.class = "Infinite" /\ x.class = "Finite" /\ x.m = <<>>)
    THEN NAN
    ELSE IF x.class = "Infinite" \/ y.class = "Infinite"
    THEN F64("Infinite", x.neg # y.neg, <<>>, 0)
    ELSE nearest_f64(x.neg # y.neg, Mul(x.m, y.m), FALSE, -(x.e + y.e))

(* The f64 product value * f1 * f2 * ..., left to right. *)
RECURSIVE product_f64(_, _)
product_f64(value, factors) ==
    IF factors = <<>> THEN value
    ELSE product_f64(mul_f64(value, factors[1]), Tail(factors))

(* `bytes as u64` on an f64 (data_size.rs:74): NaN and the negative values *)
(* give 0, the fraction is dropped, and the cast saturates.                *)
f64_as_u64(x) ==
    IF x.class = "NaN" \/ x.neg THEN <<>>
    ELSE IF x.class = "Infinite" \/ BitLen(x.m) + x.e > 64 THEN U64Max
    ELSE IF x.m = <<>> THEN <<>>
    ELSE IF x.e >= 0 THEN Shl(x.m, x.e)
    ELSE Shr(x.m, -x.e)

(* Byte::from_value_and_unit (data_size.rs:58-76) on any f64. *)
from_value_and_unit_f64(value, unit) ==
    [bytes |-> f64_as_u64(product_f64(value,
                  [j \in DOMAIN byte_factors(unit) |->
                      Finite(FALSE, byte_factors(unit)[j], 0)]))]

(* The f64 seconds from_float_and_unit passes to from_secs_f64             *)
(* (duration.rs:73-81).                                                    *)
float_secs_f64(value, unit) ==
    CASE unit = "NS" -> mul_f64(value, Finite(FALSE, TenNanos.m, -TenNanos.k))
      [] unit = "US" -> mul_f64(value, Finite(FALSE, TenMicros.m, -TenMicros.k))
      [] unit = "MS" -> mul_f64(value, Finite(FALSE, TenMillis.m, -TenMillis.k))
      [] unit = "S" -> value
      [] unit = "MIN" -> product_f64(value, <<Finite(FALSE, Wide(60), 0)>>)
      [] unit = "H" ->
            product_f64(value, <<Finite(FALSE, Wide(60), 0),
                                 Finite(FALSE, Wide(60), 0)>>)
      [] unit = "D" ->
            product_f64(value, <<Finite(FALSE, Wide(60), 0),
                                 Finite(FALSE, Wide(60), 0),
                                 Finite(FALSE, Wide(24), 0)>>)

(* Duration::from_float_and_unit (duration.rs:68-89).  from_secs_f64       *)
(* panics on NaN and on an infinity as on any value from 2^64 on.          *)
from_float_and_unit(value, unit) ==
    LET initial_value == FloatV(value)
        is_negative == value.neg
        secs == float_secs_f64([value EXCEPT !.neg = FALSE], unit)
        duration ==
            IF secs.class # "Finite" \/ BitLen(secs.m) + secs.e > 64
            THEN from_secs_f64([m |-> Shl(Wide(1), 64), k |-> 0])
            ELSE IF secs.e >= 0
            THEN from_secs_f64([m |-> Shl(secs.m, secs.e), k |-> 0])
            ELSE from_secs_f64([m |-> secs.m, k |-> -secs.e])
    IN  IF duration.kind = "Panic" THEN duration
        ELSE Ok([duration |-> duration.val, unit |-> unit,
                 initial_value |-> initial_value, is_negative |-> is_negative])

(* match_float_props_api: as for an Int, a duration unit first, then a     *)
(* data-size unit, and no other property.                                  *)
match_float_props_api(float, property, range) ==
    IF duration_from_str(property).some
    THEN LET d == from_float_and_unit(float, duration_from_str(property).val)
         IN  IF d.kind = "Ok" THEN Ok(DurationV(d.val)) ELSE d
    ELSE IF data_size_from_str(property).some
    THEN Ok(DataSizeV(from_value_and_unit_f64(float,
                                              data_size_from_str(property).val)))
    ELSE Err(<<"Float does not possess property", Slice(property)>>, range)

----------------------------------------------------------------------------
(* The evaluator (table.rs:183-318).  An evaluation yields the set of the  *)
(* results it can return: a HashMap is iterated in an unspecified order,   *)
(* and the loop stops at the first field whose evaluation fails.           *)

Failed(rs) == {r \in rs : r.kind # "Ok"}
TheOk(rs) == (CHOOSE r \in rs : r.kind = "Ok").val

RECURSIVE evaluate(_, _), evaluate_value(_, _), evaluate_fields(_, _),
          evaluate_list(_, _)

(* Mutant: an object given for a key that holds an object is merged into   *)
(* it, field by field.                                                     *)
Overlay_deep(variables, start, b) ==
    LET outs == [k \in DOMAIN b |-> evaluate(variables, b[k])]
        failing == {k \in DOMAIN b : Failed(outs[k]) # {}}
        merged(old, new) ==
            IF old.tag = "Object" /\ new.tag = "Object"
            THEN ObjectV([f \in DOMAIN old.fields \cup DOMAIN new.fields |->
                            IF f \in DOMAIN new.fields THEN new.fields[f]
                            ELSE old.fields[f]])
            ELSE new
    IN  IF failing = {}
        THEN {Ok([k \in DOMAIN start \cup DOMAIN b |->
                    IF k \in DOMAIN b
                    THEN IF k \in DOMAIN start
                         THEN merged(start[k], TheOk(outs[k]))
                         ELSE TheOk(outs[k])
                    ELSE start[k]])}
        ELSE UNION {Failed(outs[k]) : k \in failing}

(* The loop `for (name, expr) in b.0 { new_hash.insert(name,               *)
(* self.evaluate(expr)?) }` over the fields b of a map, starting from      *)
(* new_hash = start: the merged map, or the failure of a failing field.    *)
Overlay(variables, start, b) ==
    LET outs == [k \in DOMAIN b |-> evaluate(variables, b[k])]
        failing == {k \in DOMAIN b : Failed(outs[k]) # {}}
    IN  IF failing = {}
        THEN {Ok([k \in DOMAIN start \cup DOMAIN b |->
                    IF k \in DOMAIN b THEN TheOk(outs[k]) ELSE start[k]])}
        ELSE UNION {Failed(outs[k]) : k \in failing}

evaluate_fields(variables, o) == Overlay(variables, EmptyMap, o.fields)

MapResult(rs, f(_)) == {IF r.kind = "Ok" THEN Ok(f(r.val)) ELSE r : r \in rs}

evaluate_object(variables, o) == MapResult(evaluate_fields(variables, o), ObjectV)

evaluate_list(variables, values) ==
    IF values = <<>> THEN {Ok(<<>>)}
    ELSE LET hd == evaluate(variables, Head(values))
         IN  IF Failed(hd) # {} THEN Failed(hd)
             ELSE LET tl == evaluate_list(variables, Tail(values))
                  IN  IF Failed(tl) # {} THEN Failed(tl)
                      ELSE {Ok(<<TheOk(hd)>> \o TheOk(tl))}

evaluate_class_instance(variables, a, b) ==
    LET mk(h) == ClassInstanceV(a, h)
    IN  MapResult(evaluate_fields(variables, b), mk)

(* Mutant: on a key collision the base's value is kept. *)
evaluate_amending_object_base_wins(variables, a, b, rng) ==
    LET mk(h) == ObjectV([k \in DOMAIN h \cup DOMAIN variables[a].fields |->
                    IF k \in DOMAIN variables[a].fields
                    THEN variables[a].fields[k] ELSE h[k]])
    IN  IF a \in DOMAIN variables /\ variables[a].tag = "Object"
        THEN MapResult(Overlay(variables, EmptyMap, b.fields), mk)
        ELSE {Err(<<"Unknown object", a>>, rng)}

(* PklTable::evaluate_amending_object (table.rs:283-300). *)
evaluate_amending_object(variables, a, b, rng) ==
    IF a \in DOMAIN variables /\ variables[a].tag = "Object"
    THEN MapResult(Overlay(variables, variables[a].fields, b.fields), ObjectV)
    ELSE {Err(<<"Unknown object", a>>, rng)}

(* Mutant: a key the object already has keeps its value. *)
evaluate_amended_object_first_wins(variables, a, b) ==
    LET first == evaluate_value(variables, a)
        mk(h) == ObjectV([k \in DOMAIN h \cup DOMAIN TheOk(first).fields |->
                    IF k \in DOMAIN TheOk(first).fields
                    THEN TheOk(first).fields[k] ELSE h[k]])
    IN  IF Failed(first) # {} THEN Failed(first)
        ELSE IF TheOk(first).tag = "Object"
        THEN MapResult(Overlay(variables, EmptyMap, b.fields), mk)
        ELSE {Panic("should not be reached due to the parser work")}

(* PklTable::evaluate_amended_object (table.rs:302-318). *)
evaluate_amended_object(variables, a, b) ==
    LET first == evaluate_value(variables, a)
    IN  IF Failed(first) # {} THEN Failed(first)
        ELSE IF TheOk(first).tag = "Object"
        THEN MapResult(Overlay(variables, TheOk(first).fields, b.fields), ObjectV)
        ELSE {Panic("should not be reached due to the parser work")}

evaluate_value(variables, value) ==
    CASE value.tag = "Bool" -> {Ok(BoolV(value.b))}
      [] value.tag = "Float" -> {Ok(FloatV(value.f))}
      [] value.tag = "Int" -> {Ok(IntV(value.i))}
      [] value.tag \in {"String", "MultiLineString"} -> {Ok(StringV(value.s))}
      [] value.tag = "List" ->
            MapResult(evaluate_list(variables, value.values), ListV)
      [] value.tag = "Object" -> evaluate_object(variables, value.hash)
      [] value.tag = "ClassInstance" ->
            evaluate_class_instance(variables, value.name, value.hash)
      [] value.tag = "AmendedObject" ->
            evaluate_amended_object(variables, value.inner, value.hash)
      [] value.tag = "AmendingObject" ->
            evaluate_amending_object(variables, value.name, value.hash, value.span)

(* Mutant: an identifier that is not bound evaluates to 0. *)
identifier_or_zero(variables, id, range) ==
    IF id \in DOMAIN variables THEN Ok(variables[id]) ELSE Ok(IntV(0))

(* The Identifier arm (table.rs:185-189). *)
identifier(variables, id, range) ==
    IF id \in DOMAIN variables
    THEN Ok(variables[id])
    ELSE Err(<<"unknown variable", id>>, range)

(* Mutant: the field is looked up by no name: any field is returned. *)
object_member_any(hashmap, property, range) ==
    IF DOMAIN hashmap # {}
    THEN Ok(hashmap[CHOOSE k \in DOMAIN hashmap : TRUE])
    ELSE Err(<<"Object does not possess a field", property>>, range)

(* The member access on an Object base (table.rs:198-207). *)
object_member(hashmap, property, range) ==
    IF property \in DOMAIN hashmap
    THEN Ok(hashmap[property])
    ELSE Err(<<"Object does not possess a field", property>>, range)

evaluate(variables, expr) ==
    CASE expr.kind = "Identifier" ->
            {identifier(variables, expr.id, expr.span)}
      [] expr.kind = "Value" -> evaluate_value(variables, expr.value)
      [] expr.kind = "MemberExpression" ->
            LET b == evaluate(variables, expr.base)
            IN  IF Failed(b) # {} THEN Failed(b)
                ELSE IF TheOk(b).tag = "Object"
                THEN {object_member(TheOk(b).fields, Slice(expr.property), expr.span)}
                ELSE IF TheOk(b).tag = "Int"
                THEN {match_int_props_api(TheOk(b).i, expr.property, expr.span)}
                ELSE IF TheOk(b).tag = "String"
                THEN {match_string_props_api(TheOk(b).s, Slice(expr.property),
                                             expr.span)}
                ELSE IF TheOk(b).tag = "Float"
                THEN {match_float_props_api(TheOk(b).f, expr.property, expr.span)}
                ELSE {Err(<<"Indexing of value not yet supported", TheOk(b)>>,
                          expr.span)}

----------------------------------------------------------------------------
(* Import paths are strings, held as tuples of characters so that          *)
(* starts_with is computed.                                                *)

starts_with(name, prefix) ==
    Len(name) >= Len(prefix) /\ SubSeq(name, 1, Len(prefix)) = prefix

PackagePrefix == <<"p", "a", "c", "k", "a", "g", "e", ":", "/", "/">>
PklPrefix == <<"p", "k", "l", ":">>
HttpsPrefix == <<"h", "t", "t", "p", "s", ":", "/", "/">>
DotPkl == <<".", "p", "k", "l">>

PackagePath == PackagePrefix \o <<"x">>
PklPath == PklPrefix \o <<"b">>
HttpsPath == HttpsPrefix \o <<"h">>
FileA == <<"a">> \o DotPkl
FileB == <<"b">> \o DotPkl
FileC == <<"c">> \o DotPkl
FileD == <<"d">> \o DotPkl
FileBad == <<"e">> \o DotPkl
FileMissing == <<"m">> \o DotPkl
FileLoopA == <<"f">> \o DotPkl         \* imports g.pkl
FileLoopB == <<"g">> \o DotPkl         \* imports f.pkl
FileSelf == <<"s">> \o DotPkl          \* imports itself
FileInto == <<"i">> \o DotPkl          \* imports a.pkl, then f.pkl
FilePkl == <<"p", "k", "l">>            \* no colon: a relative path
FileHttp == <<"h", "t", "t", "p", ":", "/", "/", "h">>  \* http, not https

----------------------------------------------------------------------------
(* The documents given to ast_to_table.  Statement i of a document lies on *)
(* line i, each line LineLen bytes long; spans are byte offsets.           *)

IntAt(i, at) == Value(AstInt(i, <<at, at + 1>>))
IdAt(id, at) == Identifier(id, <<at, at + 2>>)
ObjAt(fields, at) == ExprHash(fields, <<at, at + 18>>)

Menu(b) == <<
    \* xx = 1
    Constant("xx", IntAt(1, b + 5), <<b, b + 6>>),
    \* yy = xx        xx = yy
    Constant("yy", IdAt("xx", b + 5), <<b, b + 7>>),
    Constant("xx", IdAt("yy", b + 5), <<b, b + 7>>),
    \* xx { aa = 1 }       xx { aa = 1, bb = 1 }
    Constant("xx", Value(AstObject(ObjAt("aa" :> IntAt(1, b + 10), b + 3))),
             <<b, b + 21>>),
    Constant("xx", Value(AstObject(ObjAt("aa" :> IntAt(1, b + 10)
                                         @@ "bb" :> IntAt(1, b + 18), b + 3))),
             <<b, b + 21>>),
    \* yy = (xx) { bb = 2 }     yy = (xx) { aa = 2 }     xx = (xx) { aa = 2 }
    Constant("yy", Value(AstAmendingObject("xx",
                 ObjAt("bb" :> IntAt(2, b + 17), b + 10), <<b + 5, b + 28>>)),
             <<b, b + 28>>),
    Constant("yy", Value(AstAmendingObject("xx",
                 ObjAt("aa" :> IntAt(2, b + 17), b + 10), <<b + 5, b + 28>>)),
             <<b, b + 28>>),
    Constant("xx", Value(AstAmendingObject("xx",
                 ObjAt("aa" :> IntAt(2, b + 17), b + 10), <<b + 5, b + 28>>)),
             <<b, b + 28>>),
    \* yy = (xx) { aa = yy }
    Constant("yy", Value(AstAmendingObject("xx",
                 ObjAt("aa" :> IdAt("yy", b + 17), b + 10), <<b + 5, b + 28>>)),
             <<b, b + 28>>),
    \* yy { aa = 1 } { aa = 2, bb = 2 }      yy { aa = 2, bb = 2 } { aa = 1 }
    Constant("yy", Value(AstAmendedObject(
                 AstObject(ObjAt("aa" :> IntAt(1, b + 10), b + 3)),
                 ObjAt("aa" :> IntAt(2, b + 29) @@ "bb" :> IntAt(2, b + 37), b + 22),
                 <<b, b + 40>>)),
             <<b, b + 21>>),
    Constant("yy", Value(AstAmendedObject(
                 AstObject(ObjAt("aa" :> IntAt(2, b + 10)
                                 @@ "bb" :> IntAt(2, b + 18), b + 3)),
                 ObjAt("aa" :> IntAt(1, b + 29), b + 22),
                 <<b, b + 40>>)),
             <<b, b + 21>>),
    \* yy = xx.aa
    Constant("yy", MemberExpression(IdAt("xx", b + 5), <<"a", "a">>, <<b + 5, b + 10>>),
             <<b, b + 10>>),
    \* yy { aa = xx, bb = zz }
    Constant("yy", Value(AstObject(ObjAt("aa" :> IdAt("xx", b + 10)
                                         @@ "bb" :> IdAt("zz", b + 18), b + 3))),
             <<b, b + 21>>),
    \* import "<path>"
    Import(PackagePath, None, <<b, b + 20>>),
    Import(PklPath, None, <<b, b + 14>>),
    Import(HttpsPath, None, <<b, b + 18>>),
    Import(FileA, None, <<b, b + 14>>),
    Import(FileB, None, <<b, b + 14>>),
    Import(FileC, None, <<b, b + 14>>),
    Import(FileD, None, <<b, b + 14>>),
    Import(FileBad, None, <<b, b + 14>>),
    Import(FileMissing, None, <<b, b + 14>>),
    Import(FilePkl, None, <<b, b + 12>>),
    Import(FileHttp, None, <<b, b + 17>>)
  >>

LineStart(i) == (i - 1) * LineLen

(* The document whose i-th line is the statement c[i] of the menu. *)
Doc(c) == [i \in DOMAIN c |-> Menu(LineStart(i))[c[i]]]
Choices(n, k) == [1..n -> 1..k]

(* What generate_ast (lib.rs:34-38) returns for the source given to parse: *)
(* a syntax error of parse_pkl, or the statements of a document.           *)
SyntaxError == Err(<<"unexpected token here (context: statement)">>, <<0, 1>>)
Source(c) == IF c = <<0>> THEN SyntaxError ELSE Ok(Doc(c))
SourceChoices(n) == IF n = 1 THEN Choices(1, Len(Menu(0))) \cup {<<0>>}
                    ELSE Choices(n, Len(Menu(0)))

(* The files an import can read, each with what generate_ast returns for   *)
(* its content.  A path outside the domain cannot be read.                 *)
Files ==
    FileA :> Ok(<<Menu(LineStart(1))[4],
                  Constant("zz", IntAt(3, LineStart(2) + 5),
                           <<LineStart(2), LineStart(2) + 6>>)>>)
    @@ FileB :> Ok(<<Import(FileA, None, <<0, 14>>), Menu(LineStart(2))[2]>>)
    @@ FileC :> Ok(<<Menu(LineStart(1))[1], Menu(LineStart(2))[2],
                     Constant("zz", IdAt("ww", LineStart(3) + 5),
                              <<LineStart(3), LineStart(3) + 7>>)>>)
    @@ FileD :> Ok(<<Menu(LineStart(1))[1], Import(FileA, None, <<LineStart(2), LineStart(2) + 14>>)>>)
    @@ FileBad :> SyntaxError
    @@ FileLoopA :> Ok(<<Import(FileLoopB, None, <<0, 14>>)>>)
    @@ FileLoopB :> Ok(<<Import(FileLoopA, None, <<0, 14>>),
                         Menu(LineStart(2))[1]>>)
    @@ FileSelf :> Ok(<<Import(FileSelf, None, <<0, 14>>)>>)
    @@ FileInto :> Ok(<<Import(FileA, None, <<0, 14>>),
                        Import(FileLoopA, None,
                               <<LineStart(2), LineStart(2) + 14>>)>>)

(* The values given to set. *)
SetValues == {IntV(7), ObjectV("aa" :> IntV(7))}
ApiNames == {"xx", "yy"}

----------------------------------------------------------------------------
(* Mutant: the map is replaced by the new entry alone. *)
insert_alone(variables, name, value) ==
    [variables |-> MapInsert(EmptyMap, name, value),
     ret |-> MapGet(variables, name)]

(* PklTable::insert (table.rs:97-99): the new map and the previous value.  *)
insert(variables, name, value) ==
    [variables |-> MapInsert(variables, name, value),
     ret |-> MapGet(variables, name)]

(* PklTable::get (table.rs:141-143). *)
get(variables, name) == MapGet(variables, name)

(* PklTable::extends (table.rs:125-129). *)
extends(variables, other) ==
    [k \in DOMAIN variables \cup DOMAIN other |->
        IF k \in DOMAIN other THEN other[k] ELSE variables[k]]

(* Mutant: the file is looked up before the scheme is. *)
import_reading_first(name, rng) ==
    IF name \notin DOMAIN Files
    THEN Err(<<"Error reading", name>>, rng)
    ELSE IF starts_with(name, PackagePrefix)
    THEN Err(<<"Package imports not yet supported!">>, rng)
    ELSE IF starts_with(name, PklPrefix)
    THEN Err(<<"Pkl official packages imports not yet supported!">>, rng)
    ELSE IF starts_with(name, HttpsPrefix)
    THEN Err(<<"Web imports not yet supported!">>, rng)
    ELSE Files[name]

(* PklTable::import (table.rs:145-172) up to the nested parse: the error   *)
(* it returns, or Ok(ast) when the file was read and generate_ast gave the *)
(* statements the nested Pkl::parse hands to ast_to_table.                 *)
import(name, rng) ==
    IF starts_with(name, PackagePrefix)
    THEN Err(<<"Package imports not yet supported!">>, rng)
    ELSE IF starts_with(name, PklPrefix)
    THEN Err(<<"Pkl official packages imports not yet supported!">>, rng)
    ELSE IF starts_with(name, HttpsPrefix)
    THEN Err(<<"Web imports not yet supported!">>, rng)
    ELSE IF name \notin DOMAIN Files
    THEN Err(<<"Error reading", name>>, rng)
    ELSE Files[name]

(* Whether import(name, rng) reaches fs::read_to_string (table.rs:160). *)
reads_file(name) ==
    ~starts_with(name, PackagePrefix) /\ ~starts_with(name, PklPrefix)
    /\ ~starts_with(name, HttpsPrefix)

----------------------------------------------------------------------------
(* A running ast_to_table call (table.rs:321-347): its argument, the index *)
(* of the statement the loop is at, and its locals.                        *)
NewFrame(ast) == [ast |-> ast, i |-> 1, table |-> EmptyMap, in_body |-> FALSE]

Top == stack[Len(stack)]
Running == stack # <<>>
Raised == result.kind # "NoResult"     \* an error is on its way up
AtStatement == Running /\ ~Raised /\ Top.i <= Len(Top.ast)
Finished == Running /\ ~Raised /\ Top.i > Len(Top.ast)
Statement == Top.ast[Top.i]
SetTop(st, f) == [st EXCEPT ![Len(st)] = f]
Aborted == result.kind = "Panic"

(* A statement fails with r: the running ast_to_table returns it through  *)
(* `?` (table.rs:330, 341); a panic aborts the process.                    *)
Fail(r) ==
    /\ result' = r
    /\ UNCHANGED <<table, stack, parsed, calls, base>>

Init ==
    /\ table = EmptyMap
    /\ stack = <<>>
    /\ result = NoResult
    /\ parsed = FALSE
    /\ calls = <<>>
    /\ base = EmptyMap
    /\ source = <<>>
    /\ tokens = <<>>
    /\ pos = 0
    /\ statements = <<>>
    /\ is_newline = TRUE
    /\ presult = NoResult

(* Pkl::parse (lib.rs:27-32), up to the call of ast_to_table. *)
Parse ==
    /\ ~parsed /\ ~Running /\ ~Aborted
    /\ \E n \in 0..MaxStmts : \E c \in SourceChoices(n) :
        LET src == Source(c)
        IN
        /\ parsed' = TRUE
        /\ calls' = <<>>
        /\ base' = table
        /\ IF src.kind = "Ok"
           THEN stack' = <<NewFrame(src.val)>> /\ result' = NoResult
           ELSE stack' = <<>> /\ result' = src
        /\ UNCHANGED table
    /\ UNCHANGED parserVars

(* Mutant: the statement after the constant is passed over. *)
constant_arm_skipping(f, name, value) ==
    [f EXCEPT !.in_body = TRUE,
              !.table = insert(f.table, name, value).variables,
              !.i = f.i + 2]

(* ast_to_table, the Constant arm (table.rs:328-331) once the expression   *)
(* evaluated to value: the locals of the call afterwards.                  *)
constant_arm(f, name, value) ==
    [f EXCEPT !.in_body = TRUE,
              !.table = insert(f.table, name, value).variables,
              !.i = f.i + 1]

StepConstant ==
    /\ AtStatement /\ Statement.kind = "Constant"
    /\ \E r \in evaluate(Top.table, Statement.expr) :
        IF r.kind = "Ok"
        THEN /\ stack' = SetTop(stack, constant_arm(Top, Statement.name, r.val))
             /\ UNCHANGED <<table, result, parsed, calls, base>>
        ELSE Fail(r)
    /\ UNCHANGED parserVars

(* Mutant: the import is resolved before the order is checked. *)
import_arm_resolving_first(f, statement) ==
    LET r == import(statement.value, statement.span)
    IN  IF r.kind = "Err" THEN r
        ELSE IF f.in_body
        THEN Err(<<"Import statements must be before document body">>,
                 statement.span)
        ELSE r

(* ast_to_table, the Import arm (table.rs:332-342), with PklTable::import  *)
(* up to the nested call of ast_to_table: the error returned, or Ok(ast)   *)
(* when ast_to_table is called on the imported statements.                 *)
import_arm(f, statement) ==
    IF f.in_body
    THEN Err(<<"Import statements must be before document body">>,
             statement.span)
    ELSE import(statement.value, statement.span)

(* Mutant: a file that is being imported already is refused. *)
StepImport_visited ==
    /\ AtStatement /\ Statement.kind = "Import"
    /\ LET r == import_arm(Top, Statement)
           visited == {stack[l].ast[stack[l].i].value : l \in 1..(Len(stack) - 1)}
       IN  IF r.kind = "Ok" /\ Statement.value \notin visited
           THEN /\ Len(stack) < MaxDepth
                /\ stack' = Append(stack, NewFrame(r.val))
                /\ UNCHANGED <<table, result, parsed, calls, base>>
           ELSE IF r.kind = "Ok"
           THEN Fail(Err(<<"cyclic import">>, Statement.span))
           ELSE Fail(r)
    /\ UNCHANGED parserVars

StepImport ==
    /\ AtStatement /\ Statement.kind = "Import"
    /\ LET r == import_arm(Top, Statement)
       IN  IF r.kind = "Ok"
           THEN /\ Len(stack) < MaxDepth
                /\ stack' = Append(stack, NewFrame(r.val))
                /\ UNCHANGED <<table, result, parsed, calls, base>>
           ELSE Fail(r)
    /\ UNCHANGED parserVars

(* The nested ast_to_table returns Ok(table): the nested Pkl::parse stores *)
(* it in the nested interpreter, PklTable::import prints its variables and *)
(* returns Ok(()) (table.rs:163-171); the importing loop goes on.          *)
ReturnImport ==
    /\ Finished /\ Len(stack) > 1
    /\ LET outer == SubSeq(stack, 1, Len(stack) - 1)
           f == outer[Len(outer)]
       IN  stack' = SetTop(outer, [f EXCEPT !.i = f.i + 1])
    /\ UNCHANGED <<table, result, parsed, calls, base>>
    /\ UNCHANGED parserVars

(* ast_to_table returns Ok(table) to the interpreter's parse, which        *)
(* assigns it (lib.rs:29-31).                                              *)
ReturnParse ==
    /\ Finished /\ Len(stack) = 1
    /\ table' = Top.table
    /\ base' = Top.table
    /\ result' = Ok(<<>>)
    /\ stack' = <<>>
    /\ UNCHANGED <<parsed, calls>>
    /\ UNCHANGED parserVars

(* Mutant: the bindings made before the failure are kept. *)
parse_failed_partial(variables, partial) == partial

(* The error of a statement goes up through every `?` (table.rs:164, 341,  *)
(* lib.rs:29): the nested parse calls and imports return it, and the       *)
(* interpreter's parse returns it without assigning its table: the table   *)
(* afterwards, given the interpreter's and the one ast_to_table built.     *)
parse_failed(variables, partial) == variables

ReturnErr ==
    /\ Running /\ result.kind = "Err"
    /\ stack' = <<>>
    /\ table' = parse_failed(table, stack[1].table)
    /\ UNCHANGED <<result, parsed, calls, base>>
    /\ UNCHANGED parserVars

(* Pkl::get (lib.rs:50-52). *)
Get ==
    /\ ~Running /\ ~Aborted /\ Len(calls) < MaxCalls
    /\ \E name \in ApiNames :
        calls' = Append(calls, [op |-> "get", name |-> name,
                                ret |-> get(table, name)])
    /\ UNCHANGED <<table, stack, result, parsed, base>>
    /\ UNCHANGED parserVars

(* Pkl::set (lib.rs:64-66). *)
Set ==
    /\ ~Running /\ ~Aborted /\ Len(calls) < MaxCalls
    /\ \E name \in ApiNames, value \in SetValues :
        LET r == insert(table, name, value)
        IN  /\ table' = r.variables
            /\ calls' = Append(calls, [op |-> "set", name |-> name,
                                       value |-> value, ret |-> r.ret])
    /\ UNCHANGED <<stack, result, parsed, base>>
    /\ UNCHANGED parserVars

(* Mutant: remove returns the value and leaves the binding. *)
remove_keeping(variables, name) ==
    [variables |-> variables, ret |-> MapGet(variables, name)]

(* HashMap::remove as Pkl::remove calls it (lib.rs:78). *)
remove(variables, name) ==
    [variables |-> MapRemove(variables, name), ret |-> MapGet(variables, name)]

(* Pkl::remove (lib.rs:77-79). *)
Remove ==
    /\ ~Running /\ ~Aborted /\ Len(calls) < MaxCalls
    /\ \E name \in ApiNames :
        LET r == remove(table, name)
        IN  /\ table' = r.variables
            /\ calls' = Append(calls, [op |-> "remove", name |-> name,
                                       ret |-> r.ret])
    /\ UNCHANGED <<stack, result, parsed, base>>
    /\ UNCHANGED parserVars

Next ==
    \/ Parse
    \/ StepConstant
    \/ StepImport
    \/ ReturnImport
    \/ ReturnParse
    \/ ReturnErr
    \/ Get
    \/ Set
    \/ Remove

Spec == Init /\ [][Next]_vars

----------------------------------------------------------------------------
(* The token sequence parse_pkl reads (lexer.rs:5-117, and the token       *)
(* kinds parser.rs matches on).  A token holds its kind, its payload and   *)
(* its byte span in the source.                                            *)

Token(type, w) ==
    [type |-> type, id |-> "", i |-> 0, b |-> FALSE, f |-> 0, s |-> "", w |-> w]
TId(id) == [Token("Identifier", 2) EXCEPT !.id = id]
TInt(i) == [Token("Int", 1) EXCEPT !.i = i]
TSpace == Token("Space", 1)
TNewLine == Token("NewLine", 1)
TEqualSign == Token("EqualSign", 1)
TOpenBrace == Token("OpenBrace", 1)
TCloseBrace == Token("CloseBrace", 1)
TOpenParen == Token("OpenParen", 1)
TCloseParen == Token("CloseParen", 1)
TComma == Token("Comma", 1)
TNew == Token("New", 3)
TLineComment == Token("LineComment", 4)
TBlankIdentifier == Token("BlankIdentifier", 1)
TError == Token("Error", 1)
(* A tab: text the lexer skips (lexer.rs:4), which yields no token. *)
TSkip == Token("Skip", 1)

(* The pieces of source text the documents are made of. *)
Field(id, i) == <<TId(id), TSpace, TEqualSign, TSpace, TInt(i)>>
Block(fs) == <<TOpenBrace>> \o fs \o <<TCloseBrace>>
Pieces ==
    << <<TId("xx"), TSpace, TEqualSign, TSpace, TInt(1)>>,      \* xx = 1
       <<TId("yy"), TSpace, TEqualSign, TSpace, TId("xx")>>,    \* yy = xx
       <<TId("xx"), TSpace>> \o Block(Field("aa", 1)),          \* xx {aa = 1}
       Block(Field("aa", 2)),                                   \* {aa = 2}
       Block(Field("bb", 2) \o <<TComma, TSpace>> \o Field("aa", 3)),
       Block(Field("cc", 4) \o <<TSpace>> \o Field("aa", 5)),   \* no comma
       <<TNewLine>>,
       <<TSpace>>,
       <<TLineComment>>,
       <<TId("yy"), TSpace, TEqualSign, TSpace, TOpenParen, TId("xx"),
         TCloseParen, TSpace>> \o Block(Field("bb", 6)),        \* yy = (xx) {bb = 6}
       <<TId("yy"), TSpace, TEqualSign, TSpace, TNew, TSpace, TId("Cl"),
         TSpace>> \o Block(Field("aa", 7)),                     \* yy = new Cl {aa = 7}
       <<TId("yy"), TSpace, TEqualSign, TSpace>> \o Block(Field("aa", 8)),
       <<TId("zz"), TSpace>>
         \o Block(<<TId("aa"), TSpace>> \o Block(Field("bb", 9))),  \* zz {aa {bb = 9}}
       <<TEqualSign>>,
       <<TBlankIdentifier>>,
       <<TError>>,
       <<TSkip>> >>

MaxPieces == 3     \* pieces of source text in a document

RECURSIVE Concat(_)
Concat(ps) == IF ps = <<>> THEN <<>> ELSE Head(ps) \o Concat(Tail(ps))

(* The tokens with their spans, in bytes (w is the number of bytes of a    *)
(* token's text): a token starts where the text before it ends, and        *)
(* skipped text moves the position on without a token.                     *)
RECURSIVE Place(_, _)
Place(ts, at) ==
    IF ts = <<>> THEN <<>>
    ELSE LET t == Head(ts)
         IN  IF t.type = "Skip" THEN Place(Tail(ts), at + t.w)
             ELSE <<[type |-> t.type, id |-> t.id, i |-> t.i, b |-> t.b, f |-> t.f,
                     s |-> t.s, start |-> at, end |-> at + t.w]>>
                  \o Place(Tail(ts), at + t.w)

(* The tokens of the source made of the pieces c[1], c[2], ... *)
TokenStream(c) == Place(Concat([j \in DOMAIN c |-> Pieces[c[j]]]), 0)

(* Lexer::next and Lexer::span on a lexer that has yielded p tokens: past  *)
(* the last token next yields None and the span is empty, at the end.      *)
SourceEnd == IF tokens = <<>> THEN 0 ELSE tokens[Len(tokens)].end
next(p) == IF p >= Len(tokens) THEN Len(tokens) + 1 ELSE p + 1
AtNone(p) == p > Len(tokens)
span(p) ==
    IF p = 0 THEN <<0, 0>>
    ELSE IF AtNone(p) THEN <<SourceEnd, SourceEnd>>
    ELSE <<tokens[p].start, tokens[p].end>>
type(p) == IF AtNone(p) THEN "None" ELSE tokens[p].type

Identifiers == {"Identifier", "IllegalIdentifier"}
Ints == {"Int", "OctalInt", "HexInt", "BinaryInt"}
Blanks == {"Space", "NewLine", "DocComment", "LineComment", "MultilineComment"}
Comments == {"Space", "DocComment", "LineComment", "MultilineComment"}

(* What a production returns, and the tokens the lexer has yielded then. *)
Parsed(r, p) == [res |-> r, pos |-> p]
(* The Err(e) arms: the lexer's error with the token's span. *)
LexError(p) == Err(<<"lexer error">>, span(p))
Unexpected(context, p) == Err(<<context>>, span(p))

----------------------------------------------------------------------------
(* The productions of the parser (parser.rs:235-485).  Each takes the      *)
(* number p of tokens the lexer has yielded when it is called and returns  *)
(* its result with the number yielded when it returns.                     *)

RECURSIVE parse_expr(_), parse_object_loop(_, _, _, _), parse_const_expr(_),
          parse_amended_object_brace(_, _, _), parse_class_instance_name(_, _),
          parse_class_instance_brace(_, _, _)

IsObjectLiteral(e) == e.kind = "Value" /\ e.value.tag = "Object"

(* Mutant: a value of any kind lets the next field follow on the line. *)
parse_object_loop_any_value(start, p, hashmap, newline) ==
    LET q == next(p)
        ty == type(q)
    IN  IF ty = "None"
        THEN Parsed(Err(<<"Missing object close brace">>, span(q)), q)
        ELSE IF ty \in Identifiers
        THEN IF ~newline
             THEN Parsed(Unexpected("unexpected token here (context: object), expected newline or comma", q), q)
             ELSE LET value == parse_const_expr(q)
                  IN  IF value.res.kind = "Err" THEN value
                      ELSE parse_object_loop(start, value.pos,
                               MapInsert(hashmap, tokens[q].id, value.res.val),
                               value.res.val.kind = "Value")
        ELSE IF ty \in {"NewLine", "Comma"}
        THEN parse_object_loop(start, q, hashmap, TRUE)
        ELSE IF ty = "Space"
        THEN parse_object_loop(start, q, hashmap, newline)
        ELSE IF ty = "CloseBrace"
        THEN Parsed(Ok(ExprHash(hashmap, <<start, span(q)[2]>>)), q)
        ELSE IF ty = "Error"
        THEN Parsed(LexError(q), q)
        ELSE Parsed(Unexpected("unexpected token here (context: object)", q), q)

(* parse_object (parser.rs:276-321): the loop, with its locals. *)
parse_object_loop(start, p, hashmap, newline) ==
    LET q == next(p)
        ty == type(q)
    IN  IF ty = "None"
        THEN Parsed(Err(<<"Missing object close brace">>, span(q)), q)
        ELSE IF ty \in Identifiers
        THEN IF ~newline
             THEN Parsed(Unexpected("unexpected token here (context: object), expected newline or comma", q), q)
             ELSE LET value == parse_const_expr(q)
                  IN  IF value.res.kind = "Err" THEN value
                      ELSE parse_object_loop(start, value.pos,
                               MapInsert(hashmap, tokens[q].id, value.res.val),
                               IsObjectLiteral(value.res.val))
        ELSE IF ty \in {"NewLine", "Comma"}
        THEN parse_object_loop(start, q, hashmap, TRUE)
        ELSE IF ty = "Space"
        THEN parse_object_loop(start, q, hashmap, newline)
        ELSE IF ty = "CloseBrace"
        THEN Parsed(Ok(ExprHash(hashmap, <<start, span(q)[2]>>)), q)
        ELSE IF ty = "Error"
        THEN Parsed(LexError(q), q)
        ELSE Parsed(Unexpected("unexpected token here (context: object)", q), q)

parse_object(p) == parse_object_loop(span(p)[1], p, EmptyMap, TRUE)

(* parse_amended_object (parser.rs:324-376): the loop up to the brace. *)
parse_amended_object_brace(start, name, p) ==
    LET q == next(p)
        ty == type(q)
    IN  IF ty = "None"
        THEN Parsed(Err(<<"expected open brace (context: amended_object)">>,
                        span(q)), q)
        ELSE IF ty \in {"Space", "NewLine"}
        THEN parse_amended_object_brace(start, name, q)
        ELSE IF ty = "OpenBrace"
        THEN LET object == parse_object(q)
             IN  IF object.res.kind = "Err" THEN object
                 ELSE Parsed(Ok(AstAmendingObject(name, object.res.val,
                                   <<start, span(object.pos)[2]>>)), object.pos)
        ELSE IF ty = "Error"
        THEN Parsed(LexError(q), q)
        ELSE Parsed(Unexpected("expected open brace here (context: amended_object)", q), q)

parse_amended_object(p) ==
    LET start == span(p)[1]
        q == next(p)
        r == next(q)
    IN  IF type(q) \in Identifiers
        THEN IF type(r) = "CloseParen"
             THEN parse_amended_object_brace(start, tokens[q].id, r)
             ELSE IF type(r) = "Error"
             THEN Parsed(LexError(r), r)
             ELSE Parsed(Unexpected("expected close parenthesis (context: amended_object)", r), r)
        ELSE IF type(q) = "Error"
        THEN Parsed(LexError(q), q)
        ELSE Parsed(Unexpected("expected identifier here (context: amended_object)", q), q)

(* parse_class_instance (parser.rs:428-485): its two loops. *)
parse_class_instance_brace(start, class_name, p) ==
    LET q == next(p)
        ty == type(q)
    IN  IF ty = "None"
        THEN Parsed(Err(<<"Expected '='">>, span(q)), q)
        ELSE IF ty = "OpenBrace"
        THEN LET object == parse_object(q)
             IN  IF object.res.kind = "Err" THEN object
                 ELSE Parsed(Ok(Value(AstClassInstance(class_name, object.res.val,
                                   <<start, span(object.pos)[2]>>))), object.pos)
        ELSE IF ty \in Blanks
        THEN parse_class_instance_brace(start, class_name, q)
        ELSE IF ty = "Error"
        THEN Parsed(LexError(q), q)
        ELSE Parsed(Unexpected("unexpected token here (context: constant)", q), q)

parse_class_instance_name(start, p) ==
    LET q == next(p)
        ty == type(q)
    IN  IF ty = "None"
        THEN Parsed(Err(<<"Expected identifier">>, span(q)), q)
        ELSE IF ty \in Identifiers
        THEN parse_class_instance_brace(start, tokens[q].id, q)
        ELSE IF ty \in Blanks
        THEN parse_class_instance_name(start, q)
        ELSE IF ty = "Error"
        THEN Parsed(LexError(q), q)
        ELSE Parsed(Unexpected("unexpected token here (context: class_instance), expected identifier", q), q)

parse_class_instance(p) == parse_class_instance_name(span(p)[1], p)

(* parse_expr (parser.rs:235-271). *)
parse_expr(p) ==
    LET q == next(p)
        ty == type(q)
    IN  IF ty = "None"
        THEN Parsed(Err(<<"empty expressions are not allowed">>, span(q)), q)
        ELSE IF ty = "Bool"
        THEN Parsed(Ok(Value(AstBool(tokens[q].b, span(q)))), q)
        ELSE IF ty \in Identifiers
        THEN Parsed(Ok(Identifier(tokens[q].id, span(q))), q)
        ELSE IF ty = "New"
        THEN parse_class_instance(q)
        ELSE IF ty \in Ints
        THEN Parsed(Ok(Value(AstInt(tokens[q].i, span(q)))), q)
        ELSE IF ty = "Float"
        THEN Parsed(Ok(Value(AstFloat(tokens[q].f, span(q)))), q)
        ELSE IF ty = "String"
        THEN Parsed(Ok(Value(AstString(tokens[q].s, span(q)))), q)
        ELSE IF ty = "MultiLineString"
        THEN Parsed(Ok(Value(AstMultiLineString(tokens[q].s, span(q)))), q)
        ELSE IF ty = "OpenParen"
        THEN LET object == parse_amended_object(q)
             IN  IF object.res.kind = "Err" THEN object
                 ELSE Parsed(Ok(Value(object.res.val)), object.pos)
        ELSE IF ty \in Blanks
        THEN parse_expr(q)
        ELSE IF ty = "Error"
        THEN Parsed(LexError(q), q)
        ELSE Parsed(Unexpected("unexpected token here (context: expression)", q), q)

(* parse_const_expr (parser.rs:394-425). *)
parse_const_expr(p) ==
    LET q == next(p)
        ty == type(q)
    IN  IF ty = "None"
        THEN Parsed(Err(<<"Expected '='">>, span(q)), q)
        ELSE IF ty = "EqualSign"
        THEN parse_expr(q)
        ELSE IF ty = "OpenBrace"
        THEN LET object == parse_object(q)
             IN  IF object.res.kind = "Err" THEN object
                 ELSE Parsed(Ok(Value(AstObject(object.res.val))), object.pos)
        ELSE IF ty \in Blanks
        THEN parse_const_expr(q)
        ELSE IF ty = "Error"
        THEN Parsed(LexError(q), q)
        ELSE Parsed(Unexpected("unexpected token here (context: constant)", q), q)

(* parse_const (parser.rs:380-389). *)
parse_const(p, name) ==
    LET start == span(p)[1]
        value == parse_const_expr(p)
    IN  IF value.res.kind = "Err" THEN value
        ELSE Parsed(Ok(Constant(name, value.res.val,
                                <<start, span(value.pos)[2]>>)), value.pos)

----------------------------------------------------------------------------
(* parse_pkl (parser.rs:161-230), one iteration of its loop per step, as   *)
(* Pkl::parse runs it through generate_ast (lib.rs:27-38).  An arm gives   *)
(* the locals after the iteration and what parse_pkl returns, if it does.  *)

Loop(stmts, newline, p, ret) ==
    [statements |-> stmts, is_newline |-> newline, pos |-> p, ret |-> ret]

(* Mutant: a binding is accepted wherever its name comes. *)
identifier_arm_anywhere(q, stmts, newline) ==
    LET statement == parse_const(q, tokens[q].id)
    IN  IF statement.res.kind = "Err"
        THEN Loop(stmts, newline, statement.pos, statement.res)
        ELSE Loop(Append(stmts, statement.res.val), FALSE, statement.pos,
                  NoResult)

(* The Identifier arm (parser.rs:167-177), token q being the name. *)
identifier_arm(q, stmts, newline) ==
    IF ~newline
    THEN Loop(stmts, newline, q,
              Err(<<"unexpected token here (context: global), expected newline">>,
                  span(q)))
    ELSE LET statement == parse_const(q, tokens[q].id)
         IN  IF statement.res.kind = "Err"
             THEN Loop(stmts, newline, statement.pos, statement.res)
             ELSE Loop(Append(stmts, statement.res.val), FALSE, statement.pos,
                       NoResult)

Amendable(e) ==
    e.kind = "Value"
      /\ e.value.tag \in {"Object", "AmendingObject", "AmendedObject"}

(* Mutant: a block is chained to the last statement whatever its value. *)
open_brace_arm_any_value(q, stmts, newline) ==
    IF stmts # <<>> /\ stmts[Len(stmts)].expr.kind = "Value"
    THEN LET last == stmts[Len(stmts)]
             new_object == parse_object(q)
         IN  IF new_object.res.kind = "Err"
             THEN Loop(stmts, newline, new_object.pos, new_object.res)
             ELSE Loop([stmts EXCEPT ![Len(stmts)].expr =
                           Value(AstAmendedObject(last.expr.value,
                                     new_object.res.val,
                                     <<last.span[1], new_object.res.val.span[2]>>))],
                       newline, new_object.pos, NoResult)
    ELSE Loop(stmts, newline, q,
              Err(<<"unexpected token here (context: global)">>, span(q)))

(* The OpenBrace arm (parser.rs:178-207), token q being the brace. *)
open_brace_arm(q, stmts, newline) ==
    IF stmts # <<>> /\ Amendable(stmts[Len(stmts)].expr)
    THEN LET last == stmts[Len(stmts)]
             new_object == parse_object(q)
         IN  IF new_object.res.kind = "Err"
             THEN Loop(stmts, newline, new_object.pos, new_object.res)
             ELSE Loop([stmts EXCEPT ![Len(stmts)].expr =
                           Value(AstAmendedObject(last.expr.value,
                                     new_object.res.val,
                                     <<last.span[1], new_object.res.val.span[2]>>))],
                       newline, new_object.pos, NoResult)
    ELSE Loop(stmts, newline, q,
              Err(<<"unexpected token here (context: global)">>, span(q)))

(* parse_pkl is running: generate_ast has made the lexer of the source     *)
(* (lib.rs:35), which yields at least one token for a text that is not     *)
(* empty.                                                                  *)
Parsing ==
    /\ presult.kind = "NoResult" /\ ~parsed /\ ~Aborted
    /\ source = <<>> \/ tokens # <<>>

(* The tokens after p up to q at which Lexer::next panics in a callback    *)
(* (lexer.rs:23, 38, 59, 80): the process ends at the first of them.       *)
Panics(p, q) ==
    {k \in (p + 1)..q : k <= Len(tokens) /\ tokens[k].type = "Panic"}

(* The iteration ends: parse_pkl goes on, or returns the error, which      *)
(* Pkl::parse returns in turn (lib.rs:28).                                 *)
Iterate(l) ==
    /\ IF Panics(pos, l.pos) # {}
       THEN /\ pos' = CHOOSE k \in Panics(pos, l.pos) :
                         \A j \in Panics(pos, l.pos) : k <= j
            /\ result' = Panic(<<"called Result::unwrap() on an Err value",
                                 tokens[pos'].s>>)
            /\ UNCHANGED <<statements, is_newline, presult, parsed>>
       ELSE /\ pos' = l.pos
            /\ statements' = l.statements
            /\ is_newline' = l.is_newline
            /\ presult' = l.ret
            /\ IF l.ret.kind = "NoResult"
               THEN UNCHANGED <<result, parsed>>
               ELSE result' = l.ret /\ parsed' = TRUE
    /\ UNCHANGED <<table, stack, calls, base, source, tokens>>

PklIdentifier ==
    /\ Parsing /\ type(next(pos)) \in Identifiers
    /\ Iterate(identifier_arm(next(pos), statements, is_newline))

PklOpenBrace ==
    /\ Parsing /\ type(next(pos)) = "OpenBrace"
    /\ Iterate(open_brace_arm(next(pos), statements, is_newline))

(* Spaces and comments are skipped (parser.rs:208-214). *)
PklComment ==
    /\ Parsing /\ type(next(pos)) \in Comments
    /\ Iterate(Loop(statements, is_newline, next(pos), NoResult))

(* parser.rs:215-218. *)
PklNewLine ==
    /\ Parsing /\ type(next(pos)) = "NewLine"
    /\ Iterate(Loop(statements, TRUE, next(pos), NoResult))

(* parser.rs:219. *)
PklLexError ==
    /\ Parsing /\ type(next(pos)) = "Error"
    /\ Iterate(Loop(statements, is_newline, next(pos), LexError(next(pos))))

(* parser.rs:220-225. *)
PklUnexpected ==
    /\ Parsing
    /\ type(next(pos)) \notin
          Identifiers \cup Comments \cup {"OpenBrace", "NewLine", "Error", "None"}
    /\ Iterate(Loop(statements, is_newline, next(pos),
                    Unexpected("unexpected token here (context: statement)",
                               next(pos))))

(* The lexer is at its end: parse_pkl returns the statements               *)
(* (parser.rs:229) and Pkl::parse calls ast_to_table on them (lib.rs:29).  *)
PklEnd ==
    /\ Parsing /\ type(next(pos)) = "None"
    /\ pos' = next(pos)
    /\ presult' = Ok(statements)
    /\ stack' = <<NewFrame(statements)>>
    /\ parsed' = TRUE
    /\ calls' = <<>>
    /\ base' = table
    /\ UNCHANGED <<table, result, source, tokens, statements, is_newline>>

InitParser ==
    /\ table = EmptyMap
    /\ stack = <<>>
    /\ result = NoResult
    /\ parsed = FALSE
    /\ calls = <<>>
    /\ base = EmptyMap
    /\ source = <<>>
    /\ \E n \in 0..MaxPieces : \E c \in Choices(n, Len(Pieces)) :
          tokens = TokenStream(c)
    /\ pos = 0
    /\ statements = <<>>
    /\ is_newline = TRUE
    /\ presult = NoResult

NextParser ==
    \/ PklIdentifier
    \/ PklOpenBrace
    \/ PklComment
    \/ PklNewLine
    \/ PklLexError
    \/ PklUnexpected
    \/ PklEnd
    \/ StepConstant
    \/ ReturnParse
    \/ ReturnErr

SpecParser == InitParser /\ [][NextParser]_vars

----------------------------------------------------------------------------
(* Properties of the evaluator and the interpreter, checked under Spec.    *)

IsAmending(st) ==
    /\ st.kind = "Constant" /\ st.expr.kind = "Value"
    /\ st.expr.value.tag = "AmendingObject"
IsObjectIn(variables, a) == a \in DOMAIN variables /\ variables[a].tag = "Object"
FieldsEvaluate(variables, b) ==
    \A k \in DOMAIN b : Failed(evaluate(variables, b[k])) = {}

(* C1: evaluating AmendingObject(a, b) when a is bound to an Object binds  *)
(* an Object whose keys are the base's keys and the keys of b, each key of *)
(* b with the value its expression evaluates to, each other key with the   *)
(* base's value.                                                           *)
C1_Step ==
    (AtStatement /\ IsAmending(Statement)
       /\ IsObjectIn(Top.table, Statement.expr.value.name)
       /\ FieldsEvaluate(Top.table, Statement.expr.value.hash.fields))
    => LET old == Top.table[Statement.expr.value.name].fields
           b == Statement.expr.value.hash.fields
       IN  /\ Len(stack') = Len(stack)
           /\ Statement.name \in DOMAIN Top'.table
           /\ LET y == Top'.table[Statement.name]
              IN  /\ y.tag = "Object"
                  /\ DOMAIN y.fields = DOMAIN old \cup DOMAIN b
                  /\ \A k \in DOMAIN b :
                        y.fields[k] = TheOk(evaluate(Top.table, b[k]))
                  /\ \A k \in DOMAIN old \ DOMAIN b : y.fields[k] = old[k]
C1_AmendingOverlay == [][C1_Step]_vars

(* x { aa = 1, bb = 1 } then yy = (xx) { aa = 2 }: yy is {aa: 2, bb: 1}. *)
C1_Witness ==
    /\ Running /\ Top.i > 1 /\ IsAmending(Top.ast[Top.i - 1])
    /\ DOMAIN Top.table = {"xx", "yy"}
    /\ Top.table["xx"] = ObjectV("aa" :> IntV(1) @@ "bb" :> IntV(1))
    /\ Top.table["yy"] = ObjectV("aa" :> IntV(2) @@ "bb" :> IntV(1))

(* C2: a step of ast_to_table changes no binding but the one of the name   *)
(* it binds: in every running call every other name keeps its value, and   *)
(* the interpreter's table is not touched while a document is evaluated.   *)
C2_Step ==
    (Running /\ stack' # <<>>)
    => /\ table' = table
       /\ \A d \in 1..Len(stack) :
            d <= Len(stack') =>
              \A n \in DOMAIN stack[d].table :
                (d = Len(stack) /\ AtStatement /\ Statement.kind = "Constant"
                   /\ n = Statement.name)
                \/ (n \in DOMAIN stack'[d].table
                      /\ stack'[d].table[n] = stack[d].table[n])
C2_BindingsKept == [][C2_Step]_vars

(* xx { aa = 1 } then yy = (xx) { aa = 2 }: xx is still {aa: 1}. *)
C2_Witness ==
    /\ Running /\ Top.i > 2 /\ IsAmending(Top.ast[Top.i - 1])
    /\ Top.ast[Top.i - 1].name = "yy"
    /\ Top.table["xx"] = ObjectV("aa" :> IntV(1))
    /\ Top.table["yy"] = ObjectV("aa" :> IntV(2))

(* The Identifier expressions of an expression, and the names its         *)
(* amending objects take as base.                                          *)
RECURSIVE Idents(_), IdentsV(_), BasesV(_)
FieldExprs(o) == {o.fields[k] : k \in DOMAIN o.fields}
FieldValues(o) == {e.value : e \in {x \in FieldExprs(o) : x.kind = "Value"}}
Idents(e) ==
    CASE e.kind = "Identifier" -> {e}
      [] e.kind = "Value" -> IdentsV(e.value)
      [] e.kind = "MemberExpression" -> Idents(e.base)
IdentsV(v) ==
    CASE v.tag \in {"Object", "ClassInstance", "AmendingObject"} ->
            UNION {Idents(e) : e \in FieldExprs(v.hash)}
      [] v.tag = "AmendedObject" ->
            IdentsV(v.inner) \cup UNION {Idents(e) : e \in FieldExprs(v.hash)}
      [] v.tag = "List" -> UNION {Idents(v.values[j]) : j \in DOMAIN v.values}
      [] OTHER -> {}
BasesV(v) ==
    CASE v.tag \in {"Object", "ClassInstance"} ->
            UNION {BasesV(x) : x \in FieldValues(v.hash)}
      [] v.tag = "AmendingObject" ->
            {v.name} \cup UNION {BasesV(x) : x \in FieldValues(v.hash)}
      [] v.tag = "AmendedObject" ->
            BasesV(v.inner) \cup UNION {BasesV(x) : x \in FieldValues(v.hash)}
      [] OTHER -> {}
Unbound(variables, e) == {x \in Idents(e) : x.id \notin DOMAIN variables}
UnknownVariable(x) == Err(<<"unknown variable", x.id>>, x.span)
ForwardReference ==
    /\ AtStatement /\ Statement.kind = "Constant"
    /\ Unbound(Top.table, Statement.expr) # {}
(* The names a call has bound: those of its Constant statements so far. *)
BoundBefore(f) ==
    {f.ast[j].name : j \in {x \in 1..(f.i - 1) : f.ast[x].kind = "Constant"}}

(* C5 as stated: a statement whose expression references a name not bound  *)
(* by the statements before it fails with the "unknown variable" error of  *)
(* that identifier.  yy = (xx) { aa = yy } with xx not bound to an object  *)
(* fails with "Unknown object" instead.                                    *)
C5_Original ==
    [][ForwardReference
         => result' \in {UnknownVariable(x) :
                            x \in Unbound(Top.table, Statement.expr)}]_vars

(* The lookups of an expression that fail first, in the order the         *)
(* evaluator takes them: an identifier that is not bound; the base of an   *)
(* amending object that is not bound to an object, which is looked up      *)
(* before the fields; the inner object of an amended object before its     *)
(* fields; the elements of a list from left to right; and any one of the   *)
(* failing fields of an object, whose fields are taken in no fixed order.  *)
RECURSIVE LookupFailures(_, _), LookupFailuresV(_, _), LookupFailuresL(_, _)
UnknownObject(v) == Err(<<"Unknown object", v.name>>, v.span)
FieldFailures(variables, o) ==
    UNION {LookupFailures(variables, e) : e \in FieldExprs(o)}
LookupFailures(variables, e) ==
    CASE e.kind = "Identifier" ->
            IF e.id \in DOMAIN variables THEN {} ELSE {UnknownVariable(e)}
      [] e.kind = "Value" -> LookupFailuresV(variables, e.value)
      [] e.kind = "MemberExpression" -> LookupFailures(variables, e.base)
LookupFailuresV(variables, v) ==
    CASE v.tag \in {"Object", "ClassInstance"} -> FieldFailures(variables, v.hash)
      [] v.tag = "AmendingObject" ->
            IF v.name \in DOMAIN variables /\ variables[v.name].tag = "Object"
            THEN FieldFailures(variables, v.hash)
            ELSE {UnknownObject(v)}
      [] v.tag = "AmendedObject" ->
            IF LookupFailuresV(variables, v.inner) # {}
            THEN LookupFailuresV(variables, v.inner)
            ELSE FieldFailures(variables, v.hash)
      [] v.tag = "List" -> LookupFailuresL(variables, v.values)
      [] OTHER -> {}
LookupFailuresL(variables, values) ==
    IF values = <<>> THEN {}
    ELSE IF LookupFailures(variables, Head(values)) # {}
    THEN LookupFailures(variables, Head(values))
    ELSE LookupFailuresL(variables, Tail(values))

(* The expressions in which nothing but a lookup can fail: identifiers,    *)
(* scalars, and the objects and lists made of them.  A member chain on     *)
(* such an expression evaluates it first.                                  *)
RECURSIVE Plain(_), PlainV(_), Chain(_)
Plain(e) ==
    CASE e.kind = "Identifier" -> TRUE
      [] e.kind = "Value" -> PlainV(e.value)
      [] e.kind = "MemberExpression" -> FALSE
PlainV(v) ==
    CASE v.tag \in {"Object", "ClassInstance", "AmendingObject"} ->
            \A e \in FieldExprs(v.hash) : Plain(e)
      [] v.tag = "AmendedObject" ->
            /\ v.inner.tag \in {"Object", "AmendingObject", "AmendedObject"}
            /\ PlainV(v.inner)
            /\ \A e \in FieldExprs(v.hash) : Plain(e)
      [] v.tag = "List" -> \A j \in DOMAIN v.values : Plain(v.values[j])
      [] OTHER -> TRUE
Chain(e) == IF e.kind = "MemberExpression" THEN Chain(e.base) ELSE Plain(e)

(* C5, amended: a statement whose expression contains an identifier that   *)
(* the statements before it do not bind fails, and no later statement is   *)
(* evaluated.  The error is that of the first lookup that fails: the       *)
(* "unknown variable" error of the identifier, with its span, when the     *)
(* identifier is the statement's expression, the base of its member chain, *)
(* a field of an object or an element of a list, or a field of an amending *)
(* object whose base is bound to an object; and the "Unknown object" error *)
(* of the base, with the amending object's span, when the base of an       *)
(* amending object is not bound to an object, whatever its fields are.  An *)
(* "unknown variable" error always names an identifier that the statements *)
(* before do not bind.  Lookup sees exactly the names bound by those       *)
(* statements.                                                             *)
C5_Step ==
    /\ \A d \in 1..Len(stack) : DOMAIN stack[d].table = BoundBefore(stack[d])
    /\ ForwardReference
       => /\ result'.kind = "Err" /\ stack' = stack
          /\ LookupFailures(Top.table, Statement.expr) # {}
          /\ Statement.expr.kind \in {"Identifier", "MemberExpression"}
             => result' \in {UnknownVariable(x) : x \in Idents(Statement.expr)}
          /\ (Statement.expr.kind = "Value" /\ BasesV(Statement.expr.value) = {})
             => result' \in {UnknownVariable(x) :
                                x \in Unbound(Top.table, Statement.expr)}
    /\ (/\ AtStatement /\ Statement.kind = "Constant"
        /\ Chain(Statement.expr)
        /\ LookupFailures(Top.table, Statement.expr) # {})
       => /\ result' \in LookupFailures(Top.table, Statement.expr)
          /\ stack' = stack
    /\ (AtStatement /\ Statement.kind = "Constant"
          /\ result'.kind = "Err" /\ result'.msg[1] = "unknown variable")
       => result' \in {UnknownVariable(x) :
                          x \in Unbound(Top.table, Statement.expr)}
C5_ForwardReference == [][C5_Step]_vars

(* xx { aa = 1 }, then yy = (xx) { aa = yy }: the base xx is bound to an   *)
(* object, and the second statement has failed on the field's yy.          *)
C5_Witness ==
    /\ Running /\ Len(Top.ast) = 2 /\ Top.i = 2
    /\ Top.ast[1] = Menu(LineStart(1))[4]
    /\ Top.ast[2] = Menu(LineStart(2))[9]
    /\ DOMAIN Top.table = {"xx"} /\ Top.table["xx"].tag = "Object"
    /\ result = Err(<<"unknown variable", "yy">>,
                    <<LineStart(2) + 17, LineStart(2) + 19>>)

(* yy = (xx) { aa = yy } as the first statement: the base xx is not bound, *)
(* and the statement has failed on it, with the amending object's span.    *)
C5_Witness_UnknownObject ==
    /\ Running /\ Top.i = 1 /\ Len(Top.ast) >= 1
    /\ Top.ast[1] = Menu(LineStart(1))[9]
    /\ result = Err(<<"Unknown object", "xx">>, <<5, 28>>)

(* xx = 1, then yy = (xx) { aa = yy }: the base xx is bound, but not to an *)
(* object.                                                                 *)
C5_Witness_NotAnObject ==
    /\ Running /\ Len(Top.ast) = 2 /\ Top.i = 2
    /\ Top.ast[1] = Menu(LineStart(1))[1]
    /\ Top.ast[2] = Menu(LineStart(2))[9]
    /\ result = Err(<<"Unknown object", "xx">>,
                    <<LineStart(2) + 5, LineStart(2) + 28>>)

(* yy = xx, then xx = 1: the first statement has failed on xx. *)
C5_Witness_Identifier ==
    /\ Running /\ Len(Top.ast) = 2 /\ Top.i = 1
    /\ Top.ast[1].kind = "Constant" /\ Top.ast[2].kind = "Constant"
    /\ Top.ast[1].expr = IdAt("xx", 5) /\ Top.ast[2].name = "xx"
    /\ result = Err(<<"unknown variable", "xx">>, <<5, 7>>)

(* yy = xx.aa as the first statement: the chain has failed on its base xx. *)
C5_Witness_MemberBase ==
    /\ Running /\ Top.i = 1 /\ Len(Top.ast) >= 1
    /\ Top.ast[1] = Menu(LineStart(1))[12]
    /\ result = Err(<<"unknown variable", "xx">>, <<5, 7>>)

(* xx = 1, then yy { aa = xx, bb = zz }: the object has failed on its      *)
(* field zz, the only one that is not bound.                               *)
C5_Witness_ObjectField ==
    /\ Running /\ Len(Top.ast) = 2 /\ Top.i = 2
    /\ Top.ast[1] = Menu(LineStart(1))[1]
    /\ Top.ast[2] = Menu(LineStart(2))[13]
    /\ result = Err(<<"unknown variable", "zz">>,
                    <<LineStart(2) + 18, LineStart(2) + 20>>)

(* C6 as stated: when evaluation fails at statement k, the interpreter's   *)
(* table holds the bindings of the statements before k after parse         *)
(* returned the error.                                                     *)
C6_Original ==
    [][(Running /\ result.kind = "Err" /\ ~Running')
         => \A n \in DOMAIN stack[1].table :
               n \in DOMAIN table' /\ table'[n] = stack[1].table[n]]_vars

(* C6, amended: the bindings of the statements before k are made in the    *)
(* table local to ast_to_table; the interpreter's table is what it was     *)
(* before the call while the document is evaluated and after parse         *)
(* returned the error.                                                     *)
C6_TableUntouched ==
    (parsed /\ calls = <<>> /\ (Running \/ result.kind = "Err")) => table = base

(* set(xx, 7), then a parse failing at its second statement on zz: the     *)
(* table is still {xx: 7}.                                                 *)
C6_Witness ==
    /\ ~Running /\ calls = <<>>
    /\ result = Err(<<"unknown variable", "zz">>,
                    <<LineStart(2) + 18, LineStart(2) + 20>>)
    /\ table = ("xx" :> IntV(7))

ImportOrderError(st) ==
    Err(<<"Import statements must be before document body">>, st.span)
IsOrderError(r) ==
    r.kind = "Err" /\ r.msg = <<"Import statements must be before document body">>

Misordered(ast) ==
    \E j, m \in DOMAIN ast :
        j < m /\ ast[j].kind = "Constant" /\ ast[m].kind = "Import"

(* C7 as stated, its second half: a call of ast_to_table on a sequence in  *)
(* which every Import comes before every Constant never gives the order    *)
(* error.  A sequence that imports a file whose own statements are out of  *)
(* order gives it, through the nested parse.                               *)
C7_Original ==
    (Running /\ IsOrderError(result)) => Misordered(stack[1].ast)

(* C7, amended: the call of ast_to_table that reaches an Import statement  *)
(* after a Constant statement of its sequence fails there with the fixed   *)
(* error and the statement's span, and without resolving the import: no    *)
(* file is parsed and no scheme or read error is given; the error is       *)
(* raised only at such a statement, of the document of the parse call or   *)
(* of a document it imports.                                               *)
C7_Step ==
    /\ (Running /\ IsOrderError(result))
       => Misordered(Top.ast) /\ result.span = Statement.span
    /\ (AtStatement /\ Statement.kind = "Import" /\ BoundBefore(Top) # {})
       => result' = ImportOrderError(Statement) /\ stack' = stack
    /\ (~Raised /\ IsOrderError(result'))
       => /\ AtStatement /\ Statement.kind = "Import"
          /\ \E j \in 1..(Top.i - 1) : Top.ast[j].kind = "Constant"
          /\ result'.span = Statement.span
C7_ImportOrder == [][C7_Step]_vars

(* xx = 1, then import "package://x": the order error, not the scheme's. *)
C7_Witness ==
    /\ Running /\ Len(stack) = 1 /\ Top.i = 2 /\ Len(Top.ast) = 2
    /\ Top.ast[1].kind = "Constant"
    /\ Top.ast[2].kind = "Import" /\ Top.ast[2].value = PackagePath
    /\ result = ImportOrderError(Top.ast[2])

(* The names the document at a readable relative path binds. *)
BoundBy(path) ==
    {Files[path].val[j].name :
        j \in {x \in DOMAIN Files[path].val : Files[path].val[x].kind = "Constant"}}
Imported(f) ==
    {f.ast[j].value : j \in {x \in 1..(f.i - 1) : f.ast[x].kind = "Import"}}

(* C8 as stated: the table of a call that imported a relative path holds   *)
(* every top-level binding of the imported document.  The code parses the  *)
(* imported document, prints its bindings and drops them.                  *)
C8_ImportMerges ==
    \A d \in 1..Len(stack) :
        \A path \in Imported(stack[d]) : BoundBy(path) \subseteq DOMAIN stack[d].table

(* C9: PklTable::import of a path that starts with package://, pkl: or     *)
(* https:// returns that scheme's fixed error with the statement's span;   *)
(* no imported document is entered and the bindings stay as they are.  An  *)
(* import that reaches the file (a read error, or the file's document      *)
(* entered) has a path with none of the prefixes.                          *)
SchemeError(name, rng) ==
    IF starts_with(name, PackagePrefix)
    THEN Err(<<"Package imports not yet supported!">>, rng)
    ELSE IF starts_with(name, PklPrefix)
    THEN Err(<<"Pkl official packages imports not yet supported!">>, rng)
    ELSE Err(<<"Web imports not yet supported!">>, rng)
ImportCalled == AtStatement /\ Statement.kind = "Import" /\ ~Top.in_body
C9_Step ==
    ImportCalled
    => /\ ~reads_file(Statement.value)
          => /\ result' = SchemeError(Statement.value, Statement.span)
             /\ stack' = stack /\ table' = table
       /\ (Len(stack') > Len(stack)
             \/ (result'.kind = "Err" /\ result'.msg[1] = "Error reading"))
          => /\ ~starts_with(Statement.value, PackagePrefix)
             /\ ~starts_with(Statement.value, PklPrefix)
             /\ ~starts_with(Statement.value, HttpsPrefix)
C9_SchemesRejected == [][C9_Step]_vars

(* import "a.pkl", then import "pkl:b": the second has failed. *)
C9_Witness ==
    /\ Running /\ Len(stack) = 1 /\ Top.i = 2 /\ Top.table = EmptyMap
    /\ Len(Top.ast) = 2
    /\ Top.ast[1].kind = "Import" /\ Top.ast[2].kind = "Import"
    /\ Top.ast[1].value = FileA /\ Top.ast[2].value = PklPath
    /\ result = Err(<<"Pkl official packages imports not yet supported!">>,
                    Top.ast[2].span)

(* What get(name) returns after the first n recorded calls, read off the   *)
(* record: the value of the last set of the name if no remove of it        *)
(* follows, nothing if a remove is the last, else the binding held when    *)
(* the record began (after a parse that succeeded: the one parse made).    *)
Writes(n, name) ==
    {j \in 1..n : calls[j].name = name /\ calls[j].op \in {"set", "remove"}}
Last(S) == CHOOSE j \in S : \A k \in S : k <= j
Expected(n, name) ==
    IF Writes(n, name) = {} THEN MapGet(base, name)
    ELSE IF calls[Last(Writes(n, name))].op = "set"
    THEN Some(calls[Last(Writes(n, name))].value)
    ELSE None

(* C10: get returns the value of the latest set not followed by a remove,  *)
(* else the binding parse produced, else nothing; every get, set and       *)
(* remove returned what get would have returned just before it.            *)
C10_GetSetRemove ==
    ~Running =>
      /\ \A name \in ApiNames : get(table, name) = Expected(Len(calls), name)
      /\ \A j \in 1..Len(calls) : calls[j].ret = Expected(j - 1, calls[j].name)
      /\ (result.kind = "Ok" /\ calls = <<>>) => table = base

(* After a parse that bound xx: remove(xx) returned its binding, set(xx,   *)
(* 7) returned nothing, and yy is still bound as parse left it.            *)
C10_Witness ==
    /\ result.kind = "Ok" /\ Len(calls) = 2
    /\ calls[1].op = "remove" /\ calls[1].name = "xx" /\ calls[1].ret.some
    /\ calls[2].op = "set" /\ calls[2].name = "xx" /\ ~calls[2].ret.some
    /\ "yy" \in DOMAIN base /\ get(table, "yy") = Some(base["yy"])
    /\ get(table, "xx") = Some(IntV(7))

----------------------------------------------------------------------------
(* Properties of the parser and of the whole parse call, checked under     *)
(* SpecParser.                                                             *)

(* The blocks of a chain from left to right, and what the chain starts     *)
(* from: nothing when its first block is an object literal, the amending   *)
(* object (name) { ... } otherwise.                                        *)
RECURSIVE Blocks(_), ChainBase(_)
Blocks(v) ==
    IF v.tag = "AmendedObject" THEN Append(Blocks(v.inner), v.hash)
    ELSE IF v.tag = "Object" THEN <<v.hash>>
    ELSE <<>>
ChainBase(v) == IF v.tag = "AmendedObject" THEN ChainBase(v.inner) ELSE v
IsChain(e) == e.kind = "Value" /\ e.value.tag = "AmendedObject"
Defining(bs, k) == {j \in DOMAIN bs : k \in DOMAIN bs[j].fields}
Rightmost(bs, k) == CHOOSE j \in Defining(bs, k) : \A m \in Defining(bs, k) : m <= j
InSourceOrder(bs) ==
    \A j, m \in DOMAIN bs : j < m => bs[j].span[2] <= bs[m].span[1]
StartsFrom(variables, v) ==
    IF ChainBase(v).tag = "Object" THEN {Ok(ObjectV(EmptyMap))}
    ELSE evaluate_value(variables, ChainBase(v))
ChainEvaluates(variables, v) ==
    /\ Failed(StartsFrom(variables, v)) = {}
    /\ \A j \in DOMAIN Blocks(v) : FieldsEvaluate(variables, Blocks(v)[j].fields)

(* C3: a `{` after a top-level binding whose value is a block (or a chain  *)
(* of blocks) makes the value AmendedObject(value so far, new block), so   *)
(* that blocks B1 ... Bk nest left to right in the order of the source;    *)
(* the object the binding evaluates to maps each key to the value it has   *)
(* in the rightmost block that defines it.                                 *)
C3_Step ==
    /\ \A j \in DOMAIN statements :
          IsChain(statements[j].expr)
            => InSourceOrder(Blocks(statements[j].expr.value))
    /\ (Parsing /\ type(next(pos)) = "OpenBrace" /\ presult'.kind = "NoResult")
       => LET n == Len(statements)
              old == statements[n].expr.value
              new == statements'[n].expr.value
          IN  /\ Len(statements') = n
              /\ new.tag = "AmendedObject" /\ new.inner = old
              /\ new.hash.span = <<tokens[next(pos)].start, tokens[pos'].end>>
              /\ tokens[pos'].type = "CloseBrace"
              /\ Blocks(new) = Append(Blocks(old), new.hash)
              /\ ChainBase(new) = ChainBase(old)
    /\ (AtStatement /\ Statement.kind = "Constant" /\ IsChain(Statement.expr)
          /\ ChainEvaluates(Top.table, Statement.expr.value))
       => LET bs == Blocks(Statement.expr.value)
              from == TheOk(StartsFrom(Top.table, Statement.expr.value)).fields
              keys == DOMAIN from \cup UNION {DOMAIN bs[j].fields : j \in DOMAIN bs}
          IN  /\ Len(stack') = Len(stack) /\ result' = result
              /\ Statement.name \in DOMAIN Top'.table
              /\ Top'.table[Statement.name] =
                   ObjectV([k \in keys |->
                      IF Defining(bs, k) = {} THEN from[k]
                      ELSE TheOk(evaluate(Top.table,
                                          bs[Rightmost(bs, k)].fields[k]))])
C3_ChainedBlocks == [][C3_Step]_vars

(* xx {aa = 1}{aa = 2}{bb = 2, aa = 3}: three blocks nested to the left,   *)
(* and xx is {aa: 3, bb: 2}.                                               *)
C3_Witness ==
    /\ presult.kind = "Ok" /\ Len(statements) = 1
    /\ IsChain(statements[1].expr)
    /\ statements[1].expr.value.inner.tag = "AmendedObject"
    /\ statements[1].expr.value.inner.inner.tag = "Object"
    /\ DOMAIN statements[1].expr.value.inner.inner.hash.fields = {"aa"}
    /\ DOMAIN statements[1].expr.value.hash.fields = {"aa", "bb"}
    /\ result.kind = "Ok"
    /\ table = ("xx" :> ObjectV("aa" :> IntV(3) @@ "bb" :> IntV(2)))

(* No newline token lies between the end of the last binding (name and    *)
(* value, as parse_const read them) and the next token.                    *)
SameLine ==
    /\ statements # <<>>
    /\ \A q \in 1..pos :
          tokens[q].start >= statements[Len(statements)].span[2]
            => tokens[q].type # "NewLine"

(* C4: when the name of a binding comes after a binding with no newline    *)
(* token since the end of that binding's value (spaces and comments only,  *)
(* or blocks chained on the same line), parse_pkl returns the error        *)
(* "unexpected token here (context: global), expected newline" with the    *)
(* span of the name, and no statements: ast_to_table is not called.        *)
C4_Step ==
    /\ (Parsing /\ SameLine) => ~is_newline
    /\ (Parsing /\ type(next(pos)) \in Identifiers /\ SameLine)
       => /\ presult' =
               Err(<<"unexpected token here (context: global), expected newline">>,
                   <<tokens[next(pos)].start, tokens[next(pos)].end>>)
          /\ result' = presult' /\ stack' = <<>> /\ table' = table
C4_OneBindingPerLine == [][C4_Step]_vars

(* xx = 1 yy = xx: rejected at yy, bytes 7 to 9. *)
C4_Witness ==
    /\ presult = Err(<<"unexpected token here (context: global), expected newline">>,
                     <<7, 9>>)
    /\ Len(statements) = 1 /\ statements[1].name = "xx"
    /\ statements[1].expr = Value(AstInt(1, <<5, 6>>))
    /\ tokens[pos].type = "Identifier" /\ tokens[pos].id = "yy"
    /\ Len(tokens) = 11

----------------------------------------------------------------------------
(* The typed accessors of the interpreter (lib.rs:90-164).  Each looks the *)
(* name up in the table and matches on the variant of what it finds.       *)

(* Mutant: a binding of another type is reported as missing. *)
get_bool_or_missing(variables, name) ==
    IF name \in DOMAIN variables /\ variables[name].tag = "Bool"
    THEN Ok(variables[name].b)
    ELSE Err(<<"Variable", name, "not found">>, <<0, 0>>)

(* Pkl::get_bool (lib.rs:90-96). *)
get_bool(variables, name) ==
    IF name \in DOMAIN variables
    THEN IF variables[name].tag = "Bool"
         THEN Ok(variables[name].b)
         ELSE Err(<<"Variable", name, "is not a boolean">>, <<0, 0>>)
    ELSE Err(<<"Variable", name, "not found">>, <<0, 0>>)

(* Pkl::get_int (lib.rs:107-113). *)
get_int(variables, name) ==
    IF name \in DOMAIN variables
    THEN IF variables[name].tag = "Int"
         THEN Ok(variables[name].i)
         ELSE Err(<<"Variable", name, "is not an integer">>, <<0, 0>>)
    ELSE Err(<<"Variable", name, "not found">>, <<0, 0>>)

(* Pkl::get_float (lib.rs:124-130). *)
get_float(variables, name) ==
    IF name \in DOMAIN variables
    THEN IF variables[name].tag = "Float"
         THEN Ok(variables[name].f)
         ELSE Err(<<"Variable", name, "is not a float">>, <<0, 0>>)
    ELSE Err(<<"Variable", name, "not found">>, <<0, 0>>)

(* Pkl::get_string (lib.rs:141-147): a String or a MultiLineString. *)
get_string(variables, name) ==
    IF name \in DOMAIN variables
    THEN IF variables[name].tag \in {"String", "MultiLineString"}
         THEN Ok(variables[name].s)
         ELSE Err(<<"Variable", name, "is not a string">>, <<0, 0>>)
    ELSE Err(<<"Variable", name, "not found">>, <<0, 0>>)

(* Pkl::get_object (lib.rs:158-164). *)
get_object(variables, name) ==
    IF name \in DOMAIN variables
    THEN IF variables[name].tag = "Object"
         THEN Ok(variables[name].fields)
         ELSE Err(<<"Variable", name, "is not an object">>, <<0, 0>>)
    ELSE Err(<<"Variable", name, "not found">>, <<0, 0>>)

(* The values a table holds when the accessors are called: one of each     *)
(* variant the accessors tell apart, and a list, which none of them takes. *)
AccessValues ==
    {BoolV(TRUE), BoolV(FALSE), IntV(7), FloatV("1.5"), StringV("text"),
     ObjectV("aa" :> IntV(7)), ListV(<<IntV(7)>>)}

(* A call of a typed accessor: `&self`, so nothing but the history moves.  *)
Accessor(op, name, ret) ==
    /\ ~Running /\ ~Aborted /\ Len(calls) < MaxCalls
    /\ calls' = Append(calls, [op |-> op, name |-> name, ret |-> ret])
    /\ UNCHANGED <<table, stack, result, parsed, base>>
    /\ UNCHANGED parserVars

GetBool == \E name \in ApiNames : Accessor("get_bool", name, get_bool(table, name))
GetInt == \E name \in ApiNames : Accessor("get_int", name, get_int(table, name))
GetFloat == \E name \in ApiNames : Accessor("get_float", name, get_float(table, name))
GetString == \E name \in ApiNames : Accessor("get_string", name, get_string(table, name))
GetObject == \E name \in ApiNames : Accessor("get_object", name, get_object(table, name))

(* The interpreter holds any table over the names: parse and set build it. *)
InitAccess ==
    /\ \E names \in SUBSET ApiNames : table \in [names -> AccessValues]
    /\ base = table
    /\ stack = <<>>
    /\ result = NoResult
    /\ parsed = FALSE
    /\ calls = <<>>
    /\ source = <<>>
    /\ tokens = <<>>
    /\ pos = 0
    /\ statements = <<>>
    /\ is_newline = TRUE
    /\ presult = NoResult

NextAccess ==
    \/ GetBool
    \/ GetInt
    \/ GetFloat
    \/ GetString
    \/ GetObject

SpecAccess == InitAccess /\ [][NextAccess]_vars

(* The variant an accessor takes, the payload it returns, and the words of *)
(* its type error.                                                         *)
Wanted(op) ==
    CASE op = "get_bool" -> {"Bool"}
      [] op = "get_int" -> {"Int"}
      [] op = "get_float" -> {"Float"}
      [] op = "get_string" -> {"String", "MultiLineString"}
      [] op = "get_object" -> {"Object"}
Payload(op, v) ==
    CASE op = "get_bool" -> v.b
      [] op = "get_int" -> v.i
      [] op = "get_float" -> v.f
      [] op = "get_string" -> v.s
      [] op = "get_object" -> v.fields
IsNot(op) ==
    CASE op = "get_bool" -> "is not a boolean"
      [] op = "get_int" -> "is not an integer"
      [] op = "get_float" -> "is not a float"
      [] op = "get_string" -> "is not a string"
      [] op = "get_object" -> "is not an object"

(* C11: every call of a typed accessor has exactly one of three outcomes:  *)
(* the payload of the value when the name is bound to a value of the       *)
(* accessor's type; the error "Variable <name> not found" when the name is *)
(* unbound; the error "Variable <name> is not a ..." when it is bound to a *)
(* value of another type.  Both errors have the span 0..0, and the table   *)
(* is the same after the calls as before them.                             *)
C11_TypedAccessors ==
    /\ table = base
    /\ \A k \in 1..Len(calls) :
        LET c == calls[k]
        IN  IF c.name \notin DOMAIN table
            THEN c.ret = Err(<<"Variable", c.name, "not found">>, <<0, 0>>)
            ELSE IF table[c.name].tag \in Wanted(c.op)
            THEN c.ret = Ok(Payload(c.op, table[c.name]))
            ELSE c.ret = Err(<<"Variable", c.name, IsNot(c.op)>>, <<0, 0>>)

(* xx is bound to an integer and yy to nothing: get_bool("xx") is the type *)
(* error and get_bool("yy") the missing one.                               *)
C11_Witness ==
    /\ table = ("xx" :> IntV(7))
    /\ Len(calls) = 2
    /\ calls[1] = [op |-> "get_bool", name |-> "xx",
                   ret |-> Err(<<"Variable", "xx", "is not a boolean">>, <<0, 0>>)]
    /\ calls[2] = [op |-> "get_bool", name |-> "yy",
                   ret |-> Err(<<"Variable", "yy", "not found">>, <<0, 0>>)]

----------------------------------------------------------------------------
(* Documents whose first statement applies a unit to an integer literal,   *)
(* `xx = <n>.<unit>`, and whose later statements read a property of xx.    *)

Lit(neg, digits) == [neg |-> neg, digits |-> digits]
LitLen(lit) == Len(lit.digits) + IF lit.neg THEN 1 ELSE 0
(* The i64 an integer literal denotes. *)
LitValue(lit) == I64(lit.neg, Dec(lit.digits))

(* Magnitudes given to data-size units: small ones, 2^53 and 2^53 + 1,     *)
(* 72057594037929 (whose thousandfold lies halfway between two f64),       *)
(* 18446744073709551 and 2^63 - 1.                                         *)
SizeLiterals ==
    {Lit(FALSE, <<0>>), Lit(FALSE, <<3>>), Lit(FALSE, <<5>>), Lit(TRUE, <<1>>),
     Lit(FALSE, <<9,0,0,7,1,9,9,2,5,4,7,4,0,9,9,2>>),
     Lit(FALSE, <<9,0,0,7,1,9,9,2,5,4,7,4,0,9,9,3>>),
     Lit(FALSE, <<7,2,0,5,7,5,9,4,0,3,7,9,2,9>>),
     Lit(FALSE, <<1,8,4,4,6,7,4,4,0,7,3,7,0,9,5,5,1>>),
     Lit(FALSE, <<9,2,2,3,3,7,2,0,3,6,8,5,4,7,7,5,8,0,7>>)}
SizeUnits ==
    {<<"b">>, <<"k", "b">>, <<"m", "b">>, <<"g", "b">>, <<"t", "b">>,
     <<"p", "b">>, <<"k", "i", "b">>, <<"m", "i", "b">>, <<"g", "i", "b">>,
     <<"t", "i", "b">>, <<"p", "i", "b">>,
     <<"M", "B">>, <<"G", "i", "B">>, <<"K", "b">>, <<"x", "b">>}

TimeLiterals ==
    {Lit(FALSE, <<0>>), Lit(FALSE, <<1>>), Lit(FALSE, <<1,0>>),
     Lit(FALSE, <<1,0,0,0>>), Lit(FALSE, <<1,0,0,0,0,0,0>>),
     Lit(FALSE, <<1,0,0,0,0,0,0,0,0,0>>), Lit(TRUE, <<5>>)}
TimeUnits ==
    {<<"n", "s">>, <<"u", "s">>, <<"m", "s">>, <<"s">>, <<"m", "i", "n">>,
     <<"h">>, <<"d">>, <<"M", "I", "N">>}
(* Whole-second units also take the largest and the smallest i64. *)
LongLiterals ==
    {Lit(FALSE, <<9,2,2,3,3,7,2,0,3,6,8,5,4,7,7,5,8,0,7>>),
     Lit(TRUE, <<9,2,2,3,3,7,2,0,3,6,8,5,4,7,7,5,8,0,8>>)}
LongUnits == {<<"s">>, <<"m", "i", "n">>, <<"h">>, <<"d">>}

UnitInputs ==
    (SizeLiterals \X SizeUnits) \cup (TimeLiterals \X TimeUnits)
      \cup (LongLiterals \X LongUnits)

UnitStatement(lit, unit, b) ==
    Constant("xx",
             MemberExpression(
                 Value(AstInt(LitValue(lit), <<b + 5, b + 5 + LitLen(lit)>>)),
                 unit, <<b + 5, b + 6 + LitLen(lit) + Len(unit)>>),
             <<b, b + 6 + LitLen(lit) + Len(unit)>>)

PropNames ==
    <<<<"v", "a", "l", "u", "e">>, <<"u", "n", "i", "t">>,
      <<"i", "s", "P", "o", "s", "i", "t", "i", "v", "e">>,
      <<"s", "e", "c", "o", "n", "d", "s">>>>
PropStatement(name, k, b) ==
    Constant(name, MemberExpression(IdAt("xx", b + 5), PropNames[k],
                                    <<b + 5, b + 8 + Len(PropNames[k])>>),
             <<b, b + 8 + Len(PropNames[k])>>)

UnitDoc(input, c) ==
    <<UnitStatement(input[1], input[2], 0)>>
      \o [i \in DOMAIN c |->
            PropStatement(IF i = 1 THEN "yy" ELSE "zz", c[i], LineStart(i + 1))]

(* Pkl::parse (lib.rs:27-32) on such a document, up to the call of         *)
(* ast_to_table: generate_ast has returned its statements.                 *)
ParseUnits ==
    /\ ~parsed /\ ~Running /\ ~Aborted
    /\ \E input \in UnitInputs : \E n \in 0..(MaxStmts - 1) :
       \E c \in Choices(n, Len(PropNames)) :
        /\ statements' = UnitDoc(input, c)
        /\ presult' = Ok(statements')
        /\ stack' = <<NewFrame(statements')>>
    /\ parsed' = TRUE
    /\ calls' = <<>>
    /\ base' = table
    /\ result' = NoResult
    /\ UNCHANGED <<table, source, tokens, pos, is_newline>>

NextUnits ==
    \/ ParseUnits
    \/ StepConstant
    \/ ReturnParse
    \/ ReturnErr

SpecUnits == Init /\ [][NextUnits]_vars

(* The first statement of the document: its literal and the name of its    *)
(* unit; whether it failed, and the value of xx once it is bound.          *)
UnitN == statements[1].expr.base.value.i
UnitName == statements[1].expr.property
UnitFailed == Running /\ Top.i = 1 /\ Raised
UnitBound ==
    /\ parsed /\ statements # <<>>
    /\ \/ Running /\ Top.i > 1
       \/ ~Running /\ result.kind = "Ok"
UnitValue == IF Running THEN Top.table["xx"] ELSE table["xx"]

(* The factor the claim gives a data-size unit. *)
Factor(unit) ==
    CASE unit = "B" -> Wide(1)
      [] unit = "KB" -> Pow(1000, 1)
      [] unit = "MB" -> Pow(1000, 2)
      [] unit = "GB" -> Pow(1000, 3)
      [] unit = "TB" -> Pow(1000, 4)
      [] unit = "PB" -> Pow(1000, 5)
      [] unit = "KiB" -> Pow(1024, 1)
      [] unit = "MiB" -> Pow(1024, 2)
      [] unit = "GiB" -> Pow(1024, 3)
      [] unit = "TiB" -> Pow(1024, 4)
      [] unit = "PiB" -> Pow(1024, 5)

(* C12: when xx = n.u is evaluated for a non-negative integer n and a      *)
(* data-size unit u, matched without regard to case, whose product         *)
(* n * factor(u) fits a u64, xx is the DataSize of exactly n * factor(u)   *)
(* bytes.                                                                  *)
C12_ExactBytes ==
    (/\ parsed /\ statements # <<>>
     /\ ~UnitN.neg
     /\ ~duration_from_str(UnitName).some
     /\ data_size_from_str(UnitName).some
     /\ ~Less(U64Max, Mul(UnitN.mag, Factor(data_size_from_str(UnitName).val))))
    => /\ ~UnitFailed
       /\ UnitBound =>
            UnitValue =
              DataSizeV([bytes |-> Mul(UnitN.mag,
                                       Factor(data_size_from_str(UnitName).val))])

(* The nanoseconds the claim gives a duration unit. *)
UnitNanos(unit) ==
    CASE unit = "NS" -> Wide(1)
      [] unit = "US" -> Pow(10, 3)
      [] unit = "MS" -> Pow(10, 6)
      [] unit = "S" -> Pow(10, 9)
      [] unit = "MIN" -> Mul(Wide(60), Pow(10, 9))
      [] unit = "H" -> Mul(Wide(3600), Pow(10, 9))
      [] unit = "D" -> Mul(Wide(86400 \div 100), Pow(10, 11))

(* C13: when xx = n.u is evaluated for an integer n and a duration unit u, *)
(* xx is a Duration whose length is |n| times the length of the unit       *)
(* (ns 10^-9 s, us 10^-6 s, ms 10^-3 s, s 1 s, min 60 s, h 3600 s,         *)
(* d 86400 s) and whose sign flag tells whether n is negative.             *)
C13_DurationLength ==
    (/\ parsed /\ statements # <<>>
     /\ duration_from_str(UnitName).some)
    => /\ ~UnitFailed
       /\ UnitBound =>
            /\ UnitValue.tag = "Duration"
            /\ UnitValue.dur.duration =
                 Mul(UnitN.mag, UnitNanos(duration_from_str(UnitName).val))
            /\ UnitValue.dur.is_negative = UnitN.neg

----------------------------------------------------------------------------
(* The lexer (lexer.rs:3-117).  The source is the tuple of its bytes, each *)
(* written as the ASCII character it is; a pattern is a predicate on a     *)
(* slice s[a..b], and the token at a position is that of the pattern with  *)
(* the longest match, the larger priority deciding between matches of the  *)
(* same length.                                                            *)

DecDigits == <<"0", "1", "2", "3", "4", "5", "6", "7", "8", "9">>
HexLower == DecDigits \o <<"a", "b", "c", "d", "e", "f">>
HexUpper == DecDigits \o <<"A", "B", "C", "D", "E", "F">>
Range(seq) == {seq[k] : k \in DOMAIN seq}
Letters == Range(UpperCase) \cup Range(LowerCase)
WordChars == Letters \cup Range(DecDigits) \cup {"_"}
HexDigits == Range(HexLower) \cup Range(HexUpper)
(* The grave accent, which delimits an IllegalIdentifier. *)
Grave == SubSeq("`'", 1, 1)

(* The end of the longest slice from a that is digit (_? digit)* over the  *)
(* digits ds, or a - 1 when s[a] is no digit: the slice goes on while the  *)
(* character is a digit, or an underscore between two digits.              *)
InRun(s, a, k, ds) ==
    \/ s[k] \in ds
    \/ /\ s[k] = "_" /\ k > a /\ k < Len(s)
       /\ s[k - 1] \in ds /\ s[k + 1] \in ds
RunEnd(s, a, ds) ==
    IF a > Len(s) THEN a - 1
    ELSE CHOOSE e \in (a - 1)..Len(s) :
            /\ \A k \in a..e : InRun(s, a, k, ds)
            /\ e = Len(s) \/ ~InRun(s, a, e + 1, ds)

(* The end of the longest slice from a of characters of cs alone, a - 1    *)
(* when s[a] is none.                                                      *)
PlainEnd(s, a, cs) ==
    IF a > Len(s) THEN a - 1
    ELSE CHOOSE e \in (a - 1)..Len(s) :
            /\ \A k \in a..e : s[k] \in cs
            /\ e = Len(s) \/ s[e + 1] \notin cs

At(s, a) == IF a >= 1 /\ a <= Len(s) THEN s[a] ELSE ""

(* The position after an optional minus sign at a. *)
AfterMinus(s, a) == IF At(s, a) = "-" THEN a + 1 ELSE a

(* The end of the longest match of a pattern at a; a - 1 when the pattern  *)
(* does not match there.                                                   *)

(* A token of fixed text w (lexer.rs:6-16). *)
LiteralEnd(s, a, w) ==
    IF a + Len(w) - 1 <= Len(s) /\ SubSeq(s, a, a + Len(w) - 1) = w
    THEN a + Len(w) - 1
    ELSE a - 1

(* The skipped text [\t]+ (lexer.rs:4). *)
SkipEnd(s, a) == PlainEnd(s, a, {"\t"})

(* -?\d(?:_?\d)* (lexer.rs:19). *)
IntEnd(s, a) ==
    LET e == RunEnd(s, AfterMinus(s, a), Range(DecDigits))
    IN  IF e >= AfterMinus(s, a) THEN e ELSE a - 1

(* -?0x[0-9a-fA-F]+(?:_?[0-9a-fA-F])*, and the same with 0b and 0o         *)
(* (lexer.rs:27, 48, 69).                                                  *)
RadixEnd(s, a, letter, ds) ==
    LET c == AfterMinus(s, a)
    IN  IF At(s, c) = "0" /\ At(s, c + 1) = letter
           /\ RunEnd(s, c + 2, ds) >= c + 2
        THEN RunEnd(s, c + 2, ds)
        ELSE a - 1
HexEnd(s, a) == RadixEnd(s, a, "x", HexDigits)
BinaryEnd(s, a) == RadixEnd(s, a, "b", {"0", "1"})
OctalEnd(s, a) ==
    RadixEnd(s, a, "o", {"0", "1", "2", "3", "4", "5", "6", "7"})

(* The Float pattern (lexer.rs:90): NaN, or Infinity with an optional      *)
(* sign, or an optional sign, then an integer part (0, or digits that      *)
(* begin with 1-9), a fraction and an exponent, each of which may be       *)
(* missing.  The longest of the three alternatives is the match.           *)
FloatIntEnd(s, c) ==
    IF At(s, c) = "0" THEN c
    ELSE IF At(s, c) \in Range(DecDigits) THEN RunEnd(s, c, Range(DecDigits))
    ELSE c - 1
FloatFractionEnd(s, m) ==
    IF At(s, m + 1) = "."
    THEN CHOOSE r \in {IF e >= m + 2 THEN e ELSE m :
                          e \in {RunEnd(s, m + 2, Range(DecDigits))}} : TRUE
    ELSE m
FloatExponentEnd(s, n) ==
    IF At(s, n + 1) \in {"e", "E"}
    THEN LET x == IF At(s, n + 2) \in {"+", "-"} THEN n + 3 ELSE n + 2
         IN  CHOOSE r \in {IF e >= x THEN e ELSE n :
                              e \in {RunEnd(s, x, Range(DecDigits))}} : TRUE
    ELSE n
FloatNumberEnd(s, a) ==
    CHOOSE r \in {FloatExponentEnd(s, n) :
                    n \in {FloatFractionEnd(s, m) :
                              m \in {FloatIntEnd(s, AfterMinus(s, a))}}} : TRUE
NaNText == <<"N", "a", "N">>
InfinityText == <<"I", "n", "f", "i", "n", "i", "t", "y">>
FloatInfinityEnd(s, a) ==
    IF LiteralEnd(s, AfterMinus(s, a), InfinityText) >= AfterMinus(s, a)
    THEN LiteralEnd(s, AfterMinus(s, a), InfinityText)
    ELSE a - 1
FloatEnd(s, a) ==
    CHOOSE r \in {LiteralEnd(s, a, NaNText), FloatInfinityEnd(s, a),
                  FloatNumberEnd(s, a)} :
        /\ r >= LiteralEnd(s, a, NaNText)
        /\ r >= FloatInfinityEnd(s, a)
        /\ r >= FloatNumberEnd(s, a)

(* The Identifier pattern (lexer.rs:108): an optional prefix, `$` or an     *)
(* underscore with digits alone after it, then a letter and at least one   *)
(* more word character.                                                    *)
WordEnd(s, c) ==
    CHOOSE e \in c..Len(s) :
        /\ \A k \in (c + 1)..e : s[k] \in WordChars
        /\ e = Len(s) \/ s[e + 1] \notin WordChars
IdentifierEnd(s, a) ==
    LET c == CASE At(s, a) = "$" -> a + 1
               [] At(s, a) = "_" -> PlainEnd(s, a + 1, Range(DecDigits)) + 1
               [] OTHER -> a
    IN  IF At(s, c) \in Letters /\ At(s, c + 1) \in WordChars
        THEN WordEnd(s, c)
        ELSE a - 1

(* The body of a quoted text from k on (lexer.rs:110, 113, 115): any       *)
(* character but the quote and the backslash, a backslash with one of the  *)
(* quote, the backslash, b, n, f, r and t, and, where braces is set, a     *)
(* backslash with u and hexadecimal digits in braces.  The result is the   *)
(* position of the quote that ends the body, 0 when the body does not end. *)
RECURSIVE QuotedEnd(_, _, _, _)
QuotedEnd(s, k, quote, braces) ==
    IF k > Len(s) THEN 0
    ELSE IF s[k] = quote THEN k
    ELSE IF s[k] # "\\" THEN QuotedEnd(s, k + 1, quote, braces)
    ELSE IF At(s, k + 1) \in {quote, "\\", "b", "n", "f", "r", "t"}
    THEN QuotedEnd(s, k + 2, quote, braces)
    ELSE IF /\ braces /\ At(s, k + 1) = "u" /\ At(s, k + 2) = "{"
            /\ PlainEnd(s, k + 3, HexDigits) >= k + 3
            /\ At(s, PlainEnd(s, k + 3, HexDigits) + 1) = "}"
    THEN QuotedEnd(s, PlainEnd(s, k + 3, HexDigits) + 2, quote, braces)
    ELSE 0

(* The IllegalIdentifier and String patterns (lexer.rs:110, 113). *)
DelimitedEnd(s, a, quote) ==
    IF At(s, a) = quote /\ QuotedEnd(s, a + 1, quote, TRUE) > 0
    THEN QuotedEnd(s, a + 1, quote, TRUE)
    ELSE a - 1
IllegalIdentifierEnd(s, a) == DelimitedEnd(s, a, Grave)
StringEnd(s, a) == DelimitedEnd(s, a, "\"")

(* The MultiLineString pattern (lexer.rs:115): three quotes and a line     *)
(* feed, a body, a line feed and three quotes.  The body holds no quote,   *)
(* so the quote that ends it is the first of the closing three and the     *)
(* character before it is the closing line feed, which is not the opening  *)
(* one.                                                                    *)
TripleQuote == <<"\"", "\"", "\"">>
MultiLineStringEnd(s, a) ==
    IF LiteralEnd(s, a, TripleQuote \o <<"\n">>) < a THEN a - 1
    ELSE CHOOSE r \in
           {IF /\ k >= a + 5 /\ s[k - 1] = "\n"
               /\ LiteralEnd(s, k, TripleQuote) >= k
            THEN k + 2 ELSE a - 1 :
            k \in {QuotedEnd(s, a + 4, "\"", FALSE)}} : TRUE

Single(s, a, c) == IF At(s, a) = c THEN a ELSE a - 1

(* The patterns, each with its priority and the end of its longest match   *)
(* at a.  A pattern has the priority the source gives it (lexer.rs:6, 24,  *)
(* 105), and otherwise the one logos derives from it: 2 for every byte and *)
(* every character class the pattern cannot match without, nothing for an  *)
(* optional or repeated part.  The skipped text is a pattern like the      *)
(* others.                                                                 *)
Matches(s, a) ==
    {pattern \in
        {[type |-> "Skip", priority |-> 2, end |-> SkipEnd(s, a)],
         [type |-> "BlankIdentifier", priority |-> 3, end |-> Single(s, a, "_")],
         [type |-> "Space", priority |-> 2, end |-> Single(s, a, " ")],
         [type |-> "NewLine", priority |-> 2, end |-> Single(s, a, "\n")],
         [type |-> "EqualSign", priority |-> 2, end |-> Single(s, a, "=")],
         [type |-> "True", priority |-> 8,
          end |-> LiteralEnd(s, a, <<"t", "r", "u", "e">>)],
         [type |-> "False", priority |-> 10,
          end |-> LiteralEnd(s, a, <<"f", "a", "l", "s", "e">>)],
         [type |-> "Int", priority |-> 3, end |-> IntEnd(s, a)],
         [type |-> "HexInt", priority |-> 6, end |-> HexEnd(s, a)],
         [type |-> "BinaryInt", priority |-> 6, end |-> BinaryEnd(s, a)],
         [type |-> "OctalInt", priority |-> 6, end |-> OctalEnd(s, a)],
         [type |-> "Float", priority |-> 2, end |-> FloatEnd(s, a)],
         [type |-> "Identifier", priority |-> 4, end |-> IdentifierEnd(s, a)],
         [type |-> "IllegalIdentifier", priority |-> 4,
          end |-> IllegalIdentifierEnd(s, a)],
         [type |-> "String", priority |-> 4, end |-> StringEnd(s, a)],
         [type |-> "MultiLineString", priority |-> 16,
          end |-> MultiLineStringEnd(s, a)]} :
     pattern.end >= a}

(* The match that wins: the longest, and among the longest the one of the *)
(* largest priority.                                                       *)
Winner(ms) ==
    CHOOSE m \in ms :
        \A o \in ms : o.end < m.end \/ (o.end = m.end /\ o.priority <= m.priority)

(* The digits of a literal: the text without its underscores               *)
(* (lexer.rs:22, 37, 58, 79), each character taken as its digit value.     *)
DigitValue(c) ==
    IF c \in Range(HexLower)
    THEN (CHOOSE k \in 1..16 : HexLower[k] = c) - 1
    ELSE (CHOOSE k \in 1..16 : HexUpper[k] = c) - 1
Clean(raw) == SelectSeq(raw, LAMBDA c : c # "_")
DigitValues(clean) == [k \in DOMAIN clean |-> DigitValue(clean[k])]

Unwrap(e) == Panic(<<"called Result::unwrap() on an Err value", e>>)

(* i64::from_str_radix on digits with the sign the text has: every step is *)
(* checked, so the result is an error exactly when the value is above      *)
(* 2^63 - 1, or below -2^63 for a text that begins with a minus sign.      *)
from_str_radix(clean, radix, neg) ==
    CHOOSE r \in
        {IF Less(I64Max, mag) /\ ~(neg /\ mag = Add(I64Max, Wide(1)))
         THEN Err(IF neg THEN "NegOverflow" ELSE "PosOverflow", <<>>)
         ELSE Ok(I64(neg /\ mag # <<>>, mag)) :
         mag \in {FromDigits(DigitValues(clean), radix)}} : TRUE

(* The callback of Int (lexer.rs:19-24): the whole text, sign included, is *)
(* parsed, and the result unwrapped.                                       *)
int_callback(raw) ==
    LET neg == raw[1] = "-"
        clean_raw == Clean(raw)
    IN  CHOOSE r \in
            {IF value.kind = "Err" THEN Unwrap(value.msg) ELSE value :
             value \in {from_str_radix(IF neg THEN Tail(clean_raw) ELSE clean_raw,
                                       10, neg)}} : TRUE

(* The callbacks of HexInt, BinaryInt and OctalInt (lexer.rs:27-45, 48-66, *)
(* 69-87): the sign and the prefix are skipped, the digits are parsed as a *)
(* positive number, the result is unwrapped and then negated.              *)
radix_callback(raw, radix) ==
    LET is_negative == raw[1] = "-"
        hex_str == IF is_negative THEN SubSeq(raw, 4, Len(raw))
                   ELSE SubSeq(raw, 3, Len(raw))
    IN  CHOOSE r \in
            {IF value.kind = "Err" THEN Unwrap(value.msg)
             ELSE Ok(I64(is_negative /\ value.val.mag # <<>>, value.val.mag)) :
             value \in {from_str_radix(Clean(hex_str), radix, FALSE)}} : TRUE

(* ExpValue: the value of the digits of an exponent, held at 99999 from    *)
(* there on (no f64 is told apart beyond it).                              *)
RECURSIVE ExpValueFrom(_, _, _)
ExpValueFrom(ds, k, acc) ==
    IF k > Len(ds) THEN acc
    ELSE CHOOSE r \in {ExpValueFrom(ds, k + 1, v) :
                        v \in {IF 10 * acc + ds[k] > 99999 THEN 99999
                               ELSE 10 * acc + ds[k]}} : TRUE
ExpValue(ds) == ExpValueFrom(ds, 1, 0)

(* str::parse::<f64> on a text of the Float pattern without underscores:   *)
(* a sign, digits, a point with digits and an exponent.  A text with no    *)
(* digit before the exponent is refused (ParseFloatError, kind Invalid);   *)
(* any other is the f64 nearest to the number written.                     *)
parse_f64(clean) ==
    LET neg == At(clean, 1) = "-"
        c == IF At(clean, 1) \in {"-", "+"} THEN 2 ELSE 1
        i == PlainEnd(clean, c, Range(DecDigits))
        f == IF At(clean, i + 1) = "."
             THEN PlainEnd(clean, i + 2, Range(DecDigits)) ELSE i
        digits == SubSeq(clean, c, i) \o SubSeq(clean, i + 2, f)
        scale == IF f > i THEN f - i - 1 ELSE 0
        marked == At(clean, f + 1) \in {"e", "E"}
        x == IF At(clean, f + 2) \in {"+", "-"} THEN f + 3 ELSE f + 2
        xe == PlainEnd(clean, x, Range(DecDigits))
        exponent == IF ~marked THEN 0
                    ELSE IF At(clean, f + 2) = "-"
                    THEN 0 - ExpValue(DigitValues(SubSeq(clean, x, xe)))
                    ELSE ExpValue(DigitValues(SubSeq(clean, x, xe)))
    IN  IF \/ digits = <<>>
           \/ marked /\ (xe < x \/ xe # Len(clean))
           \/ ~marked /\ f # Len(clean)
        THEN Err("Invalid", <<>>)
        ELSE Ok(decimal_to_f64(neg, Dec(DigitValues(digits)), exponent - scale))

(* The callback of Float (lexer.rs:90-105): NaN and the infinities by      *)
(* their spelling, any other text parsed without its underscores and the   *)
(* result unwrapped.                                                       *)
float_callback(raw) ==
    IF raw = NaNText THEN Ok(NAN)
    ELSE IF raw = InfinityText THEN Ok(INFINITY)
    ELSE IF raw = <<"-">> \o InfinityText THEN Ok(NEG_INFINITY)
    ELSE CHOOSE r \in
            {IF value.kind = "Err" THEN Unwrap(value.msg) ELSE value :
             value \in {parse_f64(Clean(raw))}} : TRUE

IntegerKinds == {"Int", "HexInt", "BinaryInt", "OctalInt"}

(* The token the lexer yields for the slice s[a..b] of a pattern, with     *)
(* the payload its callback computes: a callback that panics ends the      *)
(* process, which the stream records as its last entry.  The payload of a  *)
(* quoted text is the text between its delimiters (lexer.rs:110-115).      *)
LexToken(kind, raw, a, b) ==
    LET plain == [type |-> kind, id |-> "", i |-> 0, b |-> FALSE, f |-> 0,
                  s |-> "", start |-> a - 1, end |-> b]
    IN  CHOOSE r \in
          {CASE value.kind = "Panic" ->
                  [plain EXCEPT !.type = "Panic", !.s = value.msg[2]]
             [] kind \in IntegerKinds -> [plain EXCEPT !.i = value.val]
             [] kind = "Float" -> [plain EXCEPT !.f = value.val]
             [] kind = "Identifier" -> [plain EXCEPT !.id = Slice(raw)]
             [] kind = "IllegalIdentifier" ->
                  [plain EXCEPT !.id = Slice(SubSeq(raw, 2, Len(raw) - 1))]
             [] kind = "String" ->
                  [plain EXCEPT !.s = Slice(SubSeq(raw, 2, Len(raw) - 1))]
             [] kind = "MultiLineString" ->
                  [plain EXCEPT !.s = Slice(SubSeq(raw, 4, Len(raw) - 3))]
             [] OTHER -> plain :
           value \in {CASE kind = "Int" -> int_callback(raw)
                        [] kind = "HexInt" -> radix_callback(raw, 16)
                        [] kind = "BinaryInt" -> radix_callback(raw, 2)
                        [] kind = "OctalInt" -> radix_callback(raw, 8)
                        [] kind = "Float" -> float_callback(raw)
                        [] OTHER -> NoResult}} : TRUE

(* The tokens Lexer::next yields from position a on: the text of the skip  *)
(* rule yields no token and belongs to no token's span, a character no     *)
(* pattern matches is an error token, and nothing is yielded after a       *)
(* panic.                                                                  *)
RECURSIVE lex_from(_, _)
lex_after(s, t) == IF t.type = "Panic" THEN <<t>> ELSE <<t>> \o lex_from(s, t.end + 1)
lex_match(s, a, m) ==
    IF m.type = "Skip" THEN lex_from(s, m.end + 1)
    ELSE CHOOSE r \in
            {lex_after(s, t) :
               t \in {LexToken(m.type, SubSeq(s, a, m.end), a, m.end)}} : TRUE
lex_at(s, a, ms) ==
    IF ms = {}
    THEN <<LexToken("Error", <<s[a]>>, a, a)>> \o lex_from(s, a + 1)
    ELSE CHOOSE r \in {lex_match(s, a, m) : m \in {Winner(ms)}} : TRUE
lex_from(s, a) ==
    IF a > Len(s) THEN <<>>
    ELSE CHOOSE r \in {lex_at(s, a, ms) : ms \in {Matches(s, a)}} : TRUE
lexer(s) == lex_from(s, 1)

----------------------------------------------------------------------------
(* Sources `xx = <literal>` for integer literals in the four bases.  A     *)
(* literal is written from its value: the sign, the prefix of the base,    *)
(* the digits of the magnitude and underscores between them.               *)

RECURSIVE DecimalDigits(_)
DecimalDigits(a) ==
    IF a = <<>> THEN <<>>
    ELSE Append(DecimalDigits(DivDigit(a, 10)), ModDigit(a, 10))

(* The digits of a magnitude in base 2^r, read off its bits. *)
BitDigits(a, r) ==
    LET n == (BitLen(a) + r - 1) \div r
    IN  [k \in 1..n |->
            LET low == (n - k) * r
            IN  Bit(a, low) + 2 * (IF r > 1 THEN Bit(a, low + 1) ELSE 0)
                + 4 * (IF r > 2 THEN Bit(a, low + 2) ELSE 0)
                + 8 * (IF r > 3 THEN Bit(a, low + 3) ELSE 0)]

ToDigits(a, radix) ==
    LET ds == CASE radix = 10 -> DecimalDigits(a)
                [] radix = 16 -> BitDigits(a, 4)
                [] radix = 8 -> BitDigits(a, 3)
                [] radix = 2 -> BitDigits(a, 1)
    IN  IF ds = <<>> THEN <<0>> ELSE ds

Prefix(radix) ==
    CASE radix = 10 -> <<>>
      [] radix = 16 -> <<"0", "x">>
      [] radix = 8 -> <<"0", "o">>
      [] radix = 2 -> <<"0", "b">>

(* The characters of the digits, in lower or upper case, with no           *)
(* underscore (style 0), one after the first digit (1) or one between      *)
(* every two digits (2).                                                   *)
DigitText(ds, style, upper) ==
    LET char(d) == IF upper THEN HexUpper[d + 1] ELSE HexLower[d + 1]
        n == Len(ds)
    IN  CASE style = 0 \/ n = 1 -> [k \in 1..n |-> char(ds[k])]
          [] style = 1 /\ n > 1 ->
                <<char(ds[1]), "_">> \o [k \in 1..(n - 1) |-> char(ds[k + 1])]
          [] style = 2 /\ n > 1 ->
                [k \in 1..(2 * n - 1) |->
                    IF k % 2 = 1 THEN char(ds[(k + 1) \div 2]) ELSE "_"]

Literal(v, radix, style, upper) ==
    (IF v.neg THEN <<"-">> ELSE <<>>) \o Prefix(radix)
      \o DigitText(ToDigits(v.mag, radix), style, upper)

Pow2(k) == Shl(Wide(1), k)

(* The values written: small ones, the bounds of i64 and their             *)
(* neighbours inside, then the first values outside the range and          *)
(* 99999999999999999999.                                                   *)
InRange ==
    {I64(FALSE, <<>>), I64(FALSE, Wide(1)), I64(TRUE, Wide(1)),
     I64(FALSE, Wide(255)), I64(TRUE, Wide(4096)),
     I64(FALSE, Add(Pow2(53), Wide(1))),
     I64(FALSE, I64Max), I64(TRUE, I64Max), I64(TRUE, Pow2(63))}
OutOfRange ==
    {I64(FALSE, Pow2(63)), I64(TRUE, Add(Pow2(63), Wide(1))),
     I64(FALSE, Pow2(64)),
     I64(FALSE, Dec(<<9,9,9,9,9,9,9,9,9,9,9,9,9,9,9,9,9,9,9,9>>))}
Radixes == {10, 16, 8, 2}
Styles == {0, 1, 2}

Assign == <<"x", "x", " ", "=", " ">>
(* x = { a = 1 } *)
OneLetterNames ==
    <<"x", " ", "=", " ", "{", " ", "a", " ", "=", " ", "1", " ", "}">>
(* Sources that are not one binding of an integer literal: a line feed and *)
(* a space before the binding, no name, names of one letter, an unbound    *)
(* name; a tab after the name; floats, one of them a lone minus sign; the  *)
(* words NaN and true; quoted texts as the value and as the name.          *)
OtherSources ==
    {<<"\n">> \o Assign \o <<"1">>, <<" ">> \o Assign \o <<"1">>,
     <<"=", " ", "1">>, <<"x", " ", "=", " ", "1">>, OneLetterNames,
     <<"y", "y", " ", "=", " ", "x", "x">>,
     Assign \o <<"1">> \o <<"\n">> \o <<"y", "y", " ", "=", " ", "x", "x">>,
     <<"x", "x", "\t", "=", " ", "1">>,
     Assign \o <<"1", "_", "0", ".", "5">>, Assign \o <<"2", "e", "-", "1">>,
     Assign \o <<"-">>, Assign \o <<"-">> \o InfinityText,
     Assign \o NaNText, Assign \o <<"t", "r", "u", "e">>,
     Assign \o <<"\"", "a", "b", "\"">>,
     Assign \o TripleQuote \o <<"\n", "a", "\n">> \o TripleQuote,
     <<Grave, "a", " ", "b", Grave, " ", "=", " ", "1">>}

(* Pkl::new and the text given to parse. *)
InitLexer ==
    /\ table = EmptyMap
    /\ stack = <<>>
    /\ result = NoResult
    /\ parsed = FALSE
    /\ calls = <<>>
    /\ base = EmptyMap
    /\ \/ \E v \in InRange \cup OutOfRange, radix \in Radixes, style \in Styles,
            upper \in BOOLEAN :
              source = Assign \o Literal(v, radix, style, upper)
       \/ source \in OtherSources
    /\ tokens = <<>>
    /\ pos = 0
    /\ statements = <<>>
    /\ is_newline = TRUE
    /\ presult = NoResult

(* generate_ast (lib.rs:34-38) makes the lexer of the source; its tokens   *)
(* are those Lexer::next yields one by one.                                *)
GenerateAst ==
    /\ source # <<>> /\ tokens = <<>> /\ ~parsed /\ ~Aborted
    /\ tokens' = lexer(source)
    /\ UNCHANGED <<table, stack, result, parsed, calls, base>>
    /\ UNCHANGED <<source, pos, statements, is_newline, presult>>

(* The lexer of this source has no token for braces and comments: the     *)
(* OpenBrace arm of parse_pkl is not reached.                              *)
NextLexer ==
    \/ GenerateAst
    \/ PklIdentifier
    \/ PklComment
    \/ PklNewLine
    \/ PklLexError
    \/ PklUnexpected
    \/ PklEnd
    \/ StepConstant
    \/ ReturnParse
    \/ ReturnErr

SpecLexer == InitLexer /\ [][NextLexer]_vars

(***************************************************************************)
(* Integer literals through the lexer.                                     *)
(***************************************************************************)
IntegerTokens == {"Int", "HexInt", "OctalInt", "BinaryInt"}

(* The source binds xx to the literal of v in some base and style. *)
WritesOneOf(vs) ==
    \E v \in vs, radix \in Radixes, style \in Styles, upper \in BOOLEAN :
        source = Assign \o Literal(v, radix, style, upper)

(* C14: for each base (decimal, 0x, 0b, 0o), any letter case of the hex    *)
(* digits and any placing of single underscores, the literal of a value v  *)
(* of i64, its minimum -2^63 and its maximum 2^63 - 1 included, is         *)
(* tokenized as an integer token whose payload is v.                       *)
C14_IntegerLiteralPayload ==
    \A v \in InRange, radix \in Radixes, style \in Styles, upper \in BOOLEAN :
        (source = Assign \o Literal(v, radix, style, upper) /\ tokens # <<>>)
            => /\ Len(tokens) = 5
               /\ tokens[5].type \in IntegerTokens
               /\ tokens[5].i = v

(* C15: an integer literal out of the range of i64 makes the tokenizer     *)
(* yield a lexer error, which parse_pkl returns as a (message, span)       *)
(* error: the run ends with a failure, it does not abort.                  *)
C15_OutOfRangeIsAnError ==
    WritesOneOf(OutOfRange) =>
        /\ ~Aborted
        /\ pos = 5 => result.kind = "Err" /\ Len(result.span) = 2

(***************************************************************************)
(* Properties applied to a string and to the string a property returned.   *)
(***************************************************************************)
MaxChars == 4
MaxProperties == 2

(* The characters of the texts: a, =, /, w, Y, Q and e with an acute      *)
(* accent (two bytes).  Among their texts are encodings of texts, valid   *)
(* encodings of bytes that are no text, and texts that encode nothing.     *)
TextChars == <<<<97>>, <<61>>, <<47>>, <<119>>, <<89>>, <<81>>, <<195, 169>>>>

RECURSIVE Text(_)
Text(cs) == IF cs = <<>> THEN <<>> ELSE TextChars[cs[1]] \o Text(Tail(cs))

StringProperties ==
    {"length", "lastIndex", "isEmpty", "isBlank", "isRegex", "md5", "sha1",
     "sha256", "sha256Int", "base64", "base64Decoded", "chars", "codePoints",
     "bytes"}

StringRange == <<5, 9>>

InitString ==
    /\ \E n \in 0..MaxChars : \E cs \in [1..n -> DOMAIN TextChars] :
          table = MapInsert(EmptyMap, "ss", StringV(Text(cs)))
    /\ base = table
    /\ stack = <<>>
    /\ result = NoResult
    /\ parsed = FALSE
    /\ calls = <<>>
    /\ source = <<>>
    /\ tokens = <<>>
    /\ pos = 0
    /\ statements = <<>>
    /\ is_newline = TRUE
    /\ presult = NoResult

(* The member expression at the String arm of evaluate (table.rs:208): a  *)
(* property of the string bound to ss, then of the string that returned.   *)
StringProperty(property) ==
    /\ Len(calls) < MaxProperties
    /\ calls # <<>> => result.kind = "Ok" /\ result.val.tag = "String"
    /\ \E s \in {IF calls = <<>> THEN table["ss"].s ELSE result.val.s} :
         \E ret \in {match_string_props_api(s, property, StringRange)} :
            /\ result' = ret
            /\ calls' = Append(calls, [op |-> property, on |-> s, ret |-> ret])
    /\ UNCHANGED <<table, stack, parsed, base>>
    /\ UNCHANGED parserVars

NextString == \E property \in StringProperties : StringProperty(property)

SpecString == InitString /\ [][NextString]_vars

(* C16: base64Decoded of the base64 of a string is that string; and        *)
(* base64Decoded returns either an error with the span of the expression,  *)
(* or the text whose encoding the string is: a string that is no base64,   *)
(* or the base64 of bytes that are no UTF-8 text, gives the error, and     *)
(* nothing aborts.                                                         *)
C16_Base64RoundTrip ==
    /\ \A k \in DOMAIN calls :
          calls[k].op = "base64Decoded" =>
            \/ /\ calls[k].ret.kind = "Err"
               /\ calls[k].ret.span = StringRange
               /\ calls[k].ret.msg[1] \in
                     {"Failed to decode base64", "Invalid UTF-8 sequence"}
            \/ /\ calls[k].ret.kind = "Ok"
               /\ calls[k].ret.val.tag = "String"
               /\ base64_encode(calls[k].ret.val.s) = calls[k].on
               /\ valid_up_to(calls[k].ret.val.s, 1) = Len(calls[k].ret.val.s)
    /\ (Len(calls) = 2 /\ calls[1].op = "base64" /\ calls[2].op = "base64Decoded")
          => result = Ok(StringV(table["ss"].s))

(* The round trip of a text of three bytes, one character of two bytes. *)
C16_Witness ==
    /\ Len(calls) = 2 /\ calls[1].op = "base64" /\ calls[2].op = "base64Decoded"
    /\ table["ss"].s = <<97, 195, 169>>
    /\ calls[2].on = <<89, 99, 79, 112>>
    /\ result = Ok(StringV(<<97, 195, 169>>))

(***************************************************************************)
(* The Boolean method table (table/bool_api.rs).                           *)
(***************************************************************************)
(* PklValue::get_type: the name of the variant of a value. *)
get_type(value) == value.tag

(* count_args! (bool_api.rs:86-91): the number of the index : type pairs. *)
count_args(arg_types) == Len(arg_types)

(* args[index] of a Vec: out of its bounds the process panics. *)
Index(args, index) ==
    IF index < Len(args) THEN Ok(args[index + 1])
    ELSE Panic(<<"index out of bounds", Len(args), index>>)

TypeError(name, index, arg_type, found, range) ==
    Err(<<"method expects argument at index to be of type, but found",
          name, index, arg_type, found>>, range)

(* The checks of generate_method! on the argument at an index, for the     *)
(* pairs from that index on (bool_api.rs:52-62).                           *)
RECURSIVE check_types(_, _, _, _, _)
check_types(name, args, arg_types, index, range) ==
    IF index >= Len(arg_types) THEN Ok(args)
    ELSE CHOOSE r \in
            {IF arg.kind = "Panic" THEN arg
             ELSE IF get_type(arg.val) # arg_types[index + 1]
             THEN TypeError(name, index, arg_types[index + 1],
                            get_type(arg.val), range)
             ELSE check_types(name, args, arg_types, index + 1, range) :
             arg \in {Index(args, index)}} : TRUE

(* Mutant: the number of arguments is not checked. *)
generate_method_any_arity(name, args, arg_types, range) ==
    check_types(name, args, arg_types, 0, range)

(* generate_method! (bool_api.rs:37-83) up to its action: the error it     *)
(* returns, or the tuple of the arguments the action is applied to.  The   *)
(* types are those of the pairs index : type, in the order of the indices. *)
generate_method(name, args, arg_types, range) ==
    IF Len(args) # count_args(arg_types)
    THEN Err(<<"Boolean expects method to take exactly argument(s)",
               name, count_args(arg_types)>>, range)
    ELSE check_types(name, args, arg_types, 0, range)

(* match_bool_methods_api (bool_api.rs:94-144). *)
match_bool_methods_api(bool_value, fn_name, args, range) ==
    IF fn_name \in {"xor", "implies"}
    THEN CHOOSE r \in
            {IF checked.kind # "Ok" THEN checked
             ELSE IF fn_name = "xor"
             THEN Ok(BoolV(bool_value # checked.val[1].b))
             ELSE Ok(BoolV(~bool_value \/ checked.val[1].b)) :
             checked \in {generate_method(fn_name, args, <<"Bool">>, range)}} : TRUE
    ELSE Err(<<"Boolean does not possess method", fn_name>>, range)

(***************************************************************************)
(* Methods called on the Boolean bound to bb.                              *)
(***************************************************************************)
MaxArgs == 2

BoolMethods == {"xor", "implies", "not"}
ArgValues ==
    {BoolV(TRUE), BoolV(FALSE), IntV(1), StringV(<<97>>),
     ObjectV("aa" :> BoolV(TRUE))}
MethodRange == <<3, 12>>

InitBool ==
    /\ \E b \in BOOLEAN : table = MapInsert(EmptyMap, "bb", BoolV(b))
    /\ base = table
    /\ stack = <<>>
    /\ result = NoResult
    /\ parsed = FALSE
    /\ calls = <<>>
    /\ source = <<>>
    /\ tokens = <<>>
    /\ pos = 0
    /\ statements = <<>>
    /\ is_newline = TRUE
    /\ presult = NoResult

BoolMethod(fn_name) ==
    /\ Len(calls) < MaxCalls /\ ~Aborted
    /\ \E n \in 0..MaxArgs : \E args \in [1..n -> ArgValues] :
       \E ret \in {match_bool_methods_api(table["bb"].b, fn_name, args,
                                          MethodRange)} :
            /\ result' = ret
            /\ calls' = Append(calls, [op |-> fn_name, args |-> args, ret |-> ret])
    /\ UNCHANGED <<table, stack, parsed, base>>
    /\ UNCHANGED parserVars

NextBool == \E fn_name \in BoolMethods : BoolMethod(fn_name)

SpecBool == InitBool /\ [][NextBool]_vars

(* C17: xor and implies called with a number of arguments other than one   *)
(* return the arity error, the empty list included (nothing is indexed     *)
(* before the count is checked); called with one argument that is no Bool  *)
(* they return the type error; called with one Bool b on the Boolean a     *)
(* they return a XOR b and (NOT a) OR b.                                   *)
C17_BoolMethodArguments ==
    \A k \in DOMAIN calls :
        calls[k].op \in {"xor", "implies"} =>
            IF Len(calls[k].args) # 1
            THEN calls[k].ret =
                    Err(<<"Boolean expects method to take exactly argument(s)",
                          calls[k].op, 1>>, MethodRange)
            ELSE IF calls[k].args[1].tag # "Bool"
            THEN /\ calls[k].ret.kind = "Err"
                 /\ calls[k].ret.span = MethodRange
                 /\ calls[k].ret.msg =
                      <<"method expects argument at index to be of type, but found",
                        calls[k].op, 0, "Bool", calls[k].args[1].tag>>
            ELSE calls[k].ret =
                    Ok(BoolV(IF calls[k].op = "xor"
                             THEN table["bb"].b # calls[k].args[1].b
                             ELSE table["bb"].b => calls[k].args[1].b))

(* xor with no argument after implies with one Bool. *)
C17_Witness ==
    /\ Len(calls) = 2
    /\ table["bb"].b
    /\ calls[1].op = "implies" /\ calls[1].args = <<BoolV(FALSE)>>
    /\ calls[1].ret = Ok(BoolV(FALSE))
    /\ calls[2].op = "xor" /\ calls[2].args = <<>>
    /\ calls[2].ret.kind = "Err"

(***************************************************************************)
(* Properties of a Duration: the documents of SpecUnits bind yy to a       *)
(* property of xx.                                                         *)
(***************************************************************************)
(* The second statement is being or has been evaluated with xx bound to a  *)
(* Duration.                                                               *)
OnDuration ==
    /\ parsed /\ Len(statements) >= 2
    /\ Running /\ Top.i >= 2
    /\ "xx" \in DOMAIN Top.table /\ Top.table["xx"].tag = "Duration"
DurationProperty == Slice(statements[2].expr.property)

(* C18: for xx a Duration made from the number n with unit u, yy = xx.value *)
(* binds yy to n, yy = xx.unit to the name of the unit, yy = xx.isPositive *)
(* to whether n is not negative, and any other property is an error.       *)
C18_DurationProperties ==
    OnDuration =>
        IF DurationProperty \in {"value", "unit", "isPositive"}
        THEN /\ ~(Top.i = 2 /\ Raised)
             /\ Top.i > 2 =>
                  Top.table["yy"] =
                    CASE DurationProperty = "value" -> IntV(UnitN)
                      [] DurationProperty = "unit" ->
                           StringV(unit_to_string(duration_from_str(UnitName).val))
                      [] DurationProperty = "isPositive" -> BoolV(~UnitN.neg)
        ELSE Top.i = 2

(***************************************************************************)
(* Member expressions on objects: xx is bound to an object whose fields    *)
(* hold objects, and yy to a chain of fields of xx.                        *)
(***************************************************************************)
MaxChain == 3

FieldNames == <<<<"a", "a">>, <<"b", "b">>, <<"c", "c">>>>

NestedObject(fields, at) == Value(AstObject(ObjAt(fields, at)))

(* xx { aa { bb = 1 } }                                                    *)
(* xx { aa { aa { bb = 2 } bb = 1 } bb { } }                               *)
(* xx { aa = 1 bb { aa = 2 } }                                             *)
MemberObjects(b) == <<
    Constant("xx", NestedObject("aa" :> NestedObject("bb" :> IntAt(1, b + 14),
                                                     b + 7), b + 3),
             <<b, b + 21>>),
    Constant("xx", NestedObject(
                 "aa" :> NestedObject(
                            "aa" :> NestedObject("bb" :> IntAt(2, b + 16), b + 10)
                            @@ "bb" :> IntAt(1, b + 23), b + 7)
                 @@ "bb" :> NestedObject(EmptyMap, b + 28), b + 3),
             <<b, b + 21>>),
    Constant("xx", NestedObject(
                 "aa" :> IntAt(1, b + 10)
                 @@ "bb" :> NestedObject("aa" :> IntAt(2, b + 20), b + 15), b + 3),
             <<b, b + 21>>)
  >>

(* xx.p1.p2...pn for the names ps: the innermost member expression is the  *)
(* leftmost.                                                               *)
RECURSIVE ChainExpr(_, _, _)
ChainExpr(ps, n, b) ==
    IF n = 0 THEN IdAt("xx", b + 5)
    ELSE MemberExpression(ChainExpr(ps, n - 1, b), FieldNames[ps[n]],
                          <<b + 5, b + 7 + 3 * n>>)
ChainStatement(name, ps, b) ==
    Constant(name, ChainExpr(ps, Len(ps), b), <<b, b + 7 + 3 * Len(ps)>>)

MemberDoc(o, chains) ==
    <<MemberObjects(0)[o]>>
      \o [i \in DOMAIN chains |->
            ChainStatement(IF i = 1 THEN "yy" ELSE "zz", chains[i],
                           LineStart(i + 1))]

(* Pkl::parse (lib.rs:27-32) on such a document, up to the call of         *)
(* ast_to_table.                                                           *)
ParseMembers ==
    /\ ~parsed /\ ~Running /\ ~Aborted
    /\ \E o \in DOMAIN MemberObjects(0) : \E n \in 0..(MaxStmts - 1) :
       \E chains \in [1..n -> UNION {[1..k -> DOMAIN FieldNames] :
                                         k \in 1..MaxChain}] :
        /\ statements' = MemberDoc(o, chains)
        /\ presult' = Ok(statements')
        /\ stack' = <<NewFrame(statements')>>
    /\ parsed' = TRUE
    /\ calls' = <<>>
    /\ base' = table
    /\ result' = NoResult
    /\ UNCHANGED <<table, source, tokens, pos, is_newline>>

NextMembers ==
    \/ ParseMembers
    \/ StepConstant
    \/ ReturnParse
    \/ ReturnErr

SpecMembers == Init /\ [][NextMembers]_vars

(* The member expressions of a chain, from the leftmost on. *)
RECURSIVE Links(_)
Links(e) == IF e.kind = "MemberExpression" THEN Append(Links(e.base), e) ELSE <<>>

(* The fields looked up one after the other from the value v: the value    *)
(* of the last, the error of the first field that is missing, or nothing   *)
(* when a value on the way is no object.                                   *)
RECURSIVE Walk(_, _, _)
Walk(v, links, k) ==
    IF k > Len(links) THEN Ok(v)
    ELSE IF v.tag # "Object" THEN NoResult
    ELSE IF Slice(links[k].property) \in DOMAIN v.fields
    THEN Walk(v.fields[Slice(links[k].property)], links, k + 1)
    ELSE Err(<<"Object does not possess a field", Slice(links[k].property)>>,
             links[k].span)

OnChain ==
    /\ parsed /\ Len(statements) >= 2
    /\ Running /\ Top.i >= 2 /\ "xx" \in DOMAIN Top.table
    /\ statements[2].expr.kind = "MemberExpression"

(* C19: a member expression on an Object is the value of the field of that *)
(* name, or the error "does not possess a field" at the span of the member *)
(* expression; in a chain xx.a.b.c each name is looked up in the result of *)
(* the lookup to its left, and the first missing field ends the chain with *)
(* its error.                                                              *)
C19_ObjectMemberChain ==
    OnChain =>
        \A w \in {Walk(Top.table["xx"], Links(statements[2].expr), 1)} :
            /\ w.kind = "Ok" =>
                  /\ ~(Top.i = 2 /\ Raised)
                  /\ Top.i > 2 => Top.table["yy"] = w.val
            /\ w.kind = "Err" => Top.i = 2 /\ (Raised => result = w)

(* yy = xx.aa.aa.bb has been evaluated on the second object. *)
C19_Witness ==
    /\ OnChain /\ Top.i > 2
    /\ Len(Links(statements[2].expr)) = 3
    /\ Top.table["yy"] = IntV(2)

(***************************************************************************)
(* The context named by an unexpected-token error: sources that begin a    *)
(* statement and go on with any few tokens.                                *)
(***************************************************************************)
MaxTail == 3

(* Nothing, yy, yy =, yy = new, yy = new Cl. *)
Heads ==
    <<<<>>,
      <<TId("yy")>>,
      <<TId("yy"), TSpace, TEqualSign>>,
      <<TId("yy"), TSpace, TEqualSign, TSpace, TNew>>,
      <<TId("yy"), TSpace, TEqualSign, TSpace, TNew, TSpace, TId("Cl")>>>>
TailTokens ==
    <<TSpace, TNewLine, TLineComment, TId("Cl"), TEqualSign, TInt(1),
      TOpenBrace, TCloseBrace, TNew, TError>>

InitContext ==
    /\ table = EmptyMap
    /\ stack = <<>>
    /\ result = NoResult
    /\ parsed = FALSE
    /\ calls = <<>>
    /\ base = EmptyMap
    /\ source = <<>>
    /\ \E h \in DOMAIN Heads : \E n \in 0..MaxTail :
       \E c \in Choices(n, Len(TailTokens)) :
          tokens = Place(Heads[h] \o [j \in DOMAIN c |-> TailTokens[c[j]]], 0)
    /\ pos = 0
    /\ statements = <<>>
    /\ is_newline = TRUE
    /\ presult = NoResult

SpecContext == InitContext /\ [][NextParser]_vars

(* The tokens after the first k that are no blank. *)
After(k) ==
    SelectSeq(SubSeq(tokens, k + 1, Len(tokens)), LAMBDA t : t.type \notin Blanks)
BeginsWith(types) ==
    /\ Len(tokens) >= Len(types)
    /\ \A k \in DOMAIN types : tokens[k].type = types[k]

(* parse_class_instance is reading the class name, or the brace after it,  *)
(* when it meets a token that is neither expected nor a lexer error.       *)
UnexpectedName ==
    /\ BeginsWith(<<"Identifier", "Space", "EqualSign", "Space", "New">>)
    /\ After(5) # <<>>
    /\ After(5)[1].type \notin Identifiers \cup {"Error"}
UnexpectedBrace ==
    /\ BeginsWith(<<"Identifier", "Space", "EqualSign", "Space", "New">>)
    /\ Len(After(5)) >= 2
    /\ After(5)[1].type \in Identifiers
    /\ After(5)[2].type \notin {"OpenBrace", "Error"}

(* C20: an unexpected token met while a class instance is parsed, be it    *)
(* where the class name or where the opening brace is expected, gives an   *)
(* error whose message names the context class_instance.                   *)
C20_ClassInstanceContext ==
    (presult.kind = "Err" /\ (UnexpectedName \/ UnexpectedBrace))
        => presult.msg[1] \in
              {"unexpected token here (context: class_instance), expected identifier",
               "unexpected token here (context: class_instance)"}

(***************************************************************************)
(* Bindings and the lines they are on: sources made of bindings, chained   *)
(* blocks and what may stand between them.                                 *)
(***************************************************************************)
MaxLineParts == 4

(* xx {aa = 1}, {aa = 2}, a newline, a space, a comment, yy = xx, and two  *)
(* things no statement begins with: an equal sign and a lexer error.       *)
LineParts ==
    << <<TId("xx"), TSpace>> \o Block(Field("aa", 1)),
       Block(Field("aa", 2)),
       <<TNewLine>>,
       <<TSpace>>,
       <<TLineComment>>,
       <<TId("yy"), TSpace, TEqualSign, TSpace, TId("xx")>>,
       <<TEqualSign>>,
       <<TError>> >>

InitLines ==
    /\ table = EmptyMap
    /\ stack = <<>>
    /\ result = NoResult
    /\ parsed = FALSE
    /\ calls = <<>>
    /\ base = EmptyMap
    /\ source = <<>>
    /\ \E n \in 0..MaxLineParts : \E c \in Choices(n, Len(LineParts)) :
          tokens = Place(Concat([j \in DOMAIN c |-> LineParts[c[j]]]), 0)
    /\ pos = 0
    /\ statements = <<>>
    /\ is_newline = TRUE
    /\ presult = NoResult

SpecLines == InitLines /\ [][NextParser]_vars

(* Where the last token of a statement ends, the blocks chained to it      *)
(* included: the rewrapped value ends with the last block.                 *)
StatementEnd(st) ==
    IF IsChain(st.expr) THEN st.expr.value.span[2] ELSE st.span[2]

(* C21: in an accepted document every binding but the first begins after   *)
(* a newline token that follows the last token of the statement before     *)
(* it, the blocks chained to that statement included.                      *)
C21_NewlineAfterStatement ==
    presult.kind = "Ok"
      => \A j \in 2..Len(statements) :
            \E q \in DOMAIN tokens :
               /\ tokens[q].type = "NewLine"
               /\ tokens[q].start >= StatementEnd(statements[j - 1])
               /\ tokens[q].end <= statements[j].span[1]

(***************************************************************************)
(* The fields of an object body and what separates them: parse_object on   *)
(* bodies made of well-formed fields, spaces, newlines and commas.         *)
(***************************************************************************)
MaxFields == 3

(* aa = 1, bb {cc = 2}, bb {cc = 2 dd = 3}, cc = new Cl {aa = 7},          *)
(* dd = (xx) {bb = 6}, ee = xx over three lines, and the separators.       *)
ObjectParts ==
    << Field("aa", 1),
       <<TId("bb"), TSpace>> \o Block(Field("cc", 2)),
       <<TId("bb"), TSpace>>
         \o Block(Field("cc", 2) \o <<TSpace>> \o Field("dd", 3)),
       <<TId("cc"), TSpace, TEqualSign, TSpace, TNew, TSpace, TId("Cl"),
         TSpace>> \o Block(Field("aa", 7)),
       <<TId("dd"), TSpace, TEqualSign, TSpace, TOpenParen, TId("xx"),
         TCloseParen, TSpace>> \o Block(Field("bb", 6)),
       <<TId("ee"), TNewLine, TEqualSign, TNewLine, TId("xx")>>,
       <<TSpace>>,
       <<TNewLine>>,
       <<TComma>> >>

InitObject ==
    /\ table = EmptyMap
    /\ stack = <<>>
    /\ result = NoResult
    /\ parsed = FALSE
    /\ calls = <<>>
    /\ base = EmptyMap
    /\ source = <<>>
    /\ \E n \in 0..MaxFields : \E c \in Choices(n, Len(ObjectParts)) :
          tokens = Place(Block(Concat([j \in DOMAIN c |-> ObjectParts[c[j]]])), 0)
    /\ pos = 0
    /\ statements = <<>>
    /\ is_newline = TRUE
    /\ presult = NoResult

(* parse_object is called when the lexer has yielded the opening brace     *)
(* (parser.rs:179-183, 404-405) and returns the fields or an error.        *)
ParseObject ==
    /\ presult.kind = "NoResult" /\ pos = 0
    /\ type(1) = "OpenBrace"
    /\ presult' = parse_object(1).res
    /\ pos' = parse_object(1).pos
    /\ UNCHANGED <<table, stack, result, parsed, calls, base, source, tokens,
                   statements, is_newline>>

NextObject == ParseObject
SpecObject == InitObject /\ [][NextObject]_vars

(* The last token before q whose type is not among skip, 0 if none. *)
Before(q, skip) ==
    CHOOSE r \in {IF ks = {} THEN 0 ELSE CHOOSE k \in ks : \A j \in ks : j <= k :
                     ks \in {{k \in 1..(q - 1) : tokens[k].type \notin skip}}} :
       TRUE
TypeAt(k) == IF k = 0 THEN "None" ELSE tokens[k].type

(* How many braces are open when token k is read. *)
DepthAt(k) ==
    Cardinality({j \in 1..(k - 1) : tokens[j].type = "OpenBrace"})
      - Cardinality({j \in 1..(k - 1) : tokens[j].type = "CloseBrace"})
(* The brace that the closing brace k closes. *)
Opening(k) ==
    CHOOSE j \in 1..(k - 1) :
       /\ tokens[j].type = "OpenBrace" /\ DepthAt(j) = DepthAt(k) - 1
       /\ \A m \in (j + 1)..(k - 1) : DepthAt(m) >= DepthAt(k)

(* Token q is the name of a field: an identifier that is neither the       *)
(* value after an equal sign, nor a class name, nor an amended name.       *)
FieldName(q) ==
    /\ tokens[q].type \in Identifiers
    /\ TypeAt(Before(q, Blanks)) \notin {"EqualSign", "New", "OpenParen"}
FieldNames22 == {q \in DOMAIN tokens : FieldName(q)}
SameBody(p, q) ==
    /\ p < q /\ DepthAt(p) = DepthAt(q)
    /\ \A k \in p..q : DepthAt(k) >= DepthAt(q)
FirstField(q) == ~\E p \in FieldNames22 : SameBody(p, q)

Separators == {"Space", "NewLine", "Comma"}
(* A newline or a comma stands between the end of the value before q and q. *)
Separated(q) ==
    \E k \in (Before(q, Separators) + 1)..(q - 1) :
       tokens[k].type \in {"NewLine", "Comma"}
(* The value that ends before q is a plain object literal, name { ... }. *)
AfterObjectLiteral(q) ==
    \E k \in {Before(q, Separators)} :
       /\ TypeAt(k) = "CloseBrace"
       /\ \E n \in {Before(Opening(k), Blanks)} : n > 0 /\ FieldName(n)
Misplaced ==
    {q \in FieldNames22 :
        ~FirstField(q) /\ ~Separated(q) /\ ~AfterObjectLiteral(q)}

(* C22: in an object body a field name is accepted only if it is the first *)
(* field, or a newline or a comma has come since the value of the field    *)
(* before it ended, or that value was a plain object literal; at any other *)
(* field name parse_object returns "unexpected token here (context:        *)
(* object), expected newline or comma" with the span of the name, and no   *)
(* fields.                                                                 *)
C22_FieldSeparators ==
    presult.kind # "NoResult"
      => IF Misplaced = {}
         THEN /\ presult.kind = "Ok"
              /\ DOMAIN presult.val.fields =
                   {tokens[q].id : q \in {n \in FieldNames22 : DepthAt(n) = 1}}
         ELSE LET q == CHOOSE n \in Misplaced : \A m \in Misplaced : n <= m
              IN  presult =
                    Err(<<"unexpected token here (context: object), expected newline or comma">>,
                        <<tokens[q].start, tokens[q].end>>)

(* {bb {cc = 2} aa = 1 cc = new Cl {aa = 7}}: aa is accepted after the     *)
(* object literal, cc is rejected after the integer.                       *)
C22_Witness ==
    /\ presult.kind = "Err"
    /\ Cardinality(FieldNames22) >= 4
    /\ \E q \in FieldNames22 \ Misplaced : ~FirstField(q) /\ ~Separated(q)
    /\ \E q \in Misplaced : tokens[q].id = "cc" /\ DepthAt(q) = 1 /\ pos = q

(***************************************************************************)
(* Where amended objects occur: statements followed by blocks, closing     *)
(* braces and other tokens, parsed and evaluated.                          *)
(***************************************************************************)
MaxBlocks == 2

(* xx {aa = 1}; the same and yy = (xx) {bb = 6} on the next line;          *)
(* zz {aa {bb = 9} with the outer body still open; yy = new Cl {aa = 7};   *)
(* xx = 1; xx {aa {bb = 9}}.                                               *)
BlockHeads ==
    << <<TId("xx"), TSpace>> \o Block(Field("aa", 1)),
       <<TId("xx"), TSpace>> \o Block(Field("aa", 1)) \o <<TNewLine>>
         \o <<TId("yy"), TSpace, TEqualSign, TSpace, TOpenParen, TId("xx"),
              TCloseParen, TSpace>> \o Block(Field("bb", 6)),
       <<TId("zz"), TSpace, TOpenBrace, TId("aa"), TSpace>>
         \o Block(Field("bb", 9)),
       <<TId("yy"), TSpace, TEqualSign, TSpace, TNew, TSpace, TId("Cl"),
         TSpace>> \o Block(Field("aa", 7)),
       Field("xx", 1),
       <<TId("xx"), TSpace>>
         \o Block(<<TId("aa"), TSpace>> \o Block(Field("bb", 9))) >>
(* {aa = 2}, {bb = 2, aa = 3}, {aa = qq, bb = ww}, a closing brace, tokens *)
(* between the blocks, {aa {cc = 2}}, and yy = (xx) {aa {cc = 2}} on a new *)
(* line.                                                                   *)
BlockTails ==
    << Block(Field("aa", 2)),
       Block(Field("bb", 2) \o <<TComma, TSpace>> \o Field("aa", 3)),
       Block(<<TId("aa"), TSpace, TEqualSign, TSpace, TId("qq"), TComma, TSpace,
               TId("bb"), TSpace, TEqualSign, TSpace, TId("ww")>>),
       <<TCloseBrace>>,
       <<TNewLine>>,
       <<TSpace>>,
       <<TEqualSign>>,
       <<TError>>,
       Block(<<TId("aa"), TSpace>> \o Block(Field("cc", 2))),
       <<TNewLine, TId("yy"), TSpace, TEqualSign, TSpace, TOpenParen, TId("xx"),
         TCloseParen, TSpace>>
         \o Block(<<TId("aa"), TSpace>> \o Block(Field("cc", 2))) >>

InitAmended ==
    /\ table = EmptyMap
    /\ stack = <<>>
    /\ result = NoResult
    /\ parsed = FALSE
    /\ calls = <<>>
    /\ base = EmptyMap
    /\ source = <<>>
    /\ \E h \in DOMAIN BlockHeads : \E n \in 0..MaxBlocks :
       \E c \in Choices(n, Len(BlockTails)) :
          tokens = Place(BlockHeads[h]
                           \o Concat([j \in DOMAIN c |-> BlockTails[c[j]]]), 0)
    /\ pos = 0
    /\ statements = <<>>
    /\ is_newline = TRUE
    /\ presult = NoResult

SpecAmended == InitAmended /\ [][NextParser]_vars

(* No amended object anywhere in an expression, the values of the fields   *)
(* of its objects included.                                                *)
RECURSIVE NotAmended(_)
NotAmended(e) ==
    e.kind = "Value"
      => /\ e.value.tag # "AmendedObject"
         /\ e.value.tag \in {"Object", "ClassInstance", "AmendingObject"}
              => \A k \in DOMAIN e.value.hash.fields :
                    NotAmended(e.value.hash.fields[k])
(* The amended objects of a statement's value are the value itself and     *)
(* the bases under it, each on an object, an amending or an amended one.   *)
RECURSIVE AmendedOnTop(_)
AmendedOnTop(v) ==
    IF v.tag = "AmendedObject"
    THEN /\ v.inner.tag \in {"Object", "AmendingObject", "AmendedObject"}
         /\ AmendedOnTop(v.inner)
         /\ \A k \in DOMAIN v.hash.fields : NotAmended(v.hash.fields[k])
    ELSE NotAmended(Value(v))

(* An opening brace inside a body that follows the closing brace of a      *)
(* field's object.                                                         *)
BraceAfterNestedObject ==
    \E k \in DOMAIN tokens :
       /\ tokens[k].type = "OpenBrace" /\ DepthAt(k) >= 1
       /\ TypeAt(Before(k, {"Space", "NewLine"})) = "CloseBrace"

(* C23: in the statements parse_pkl returns an amended object is the value *)
(* of a top-level statement only, on a base that is an object, an amending *)
(* or an amended object; a brace right after a nested field's object is a  *)
(* parse error; the base of an amended object, when it evaluates, gives an *)
(* Object, and evaluation never reaches the unreachable! branch.           *)
C23_AmendedOnlyAtTopLevel ==
    /\ presult.kind = "Ok"
         => \A j \in DOMAIN statements :
               IF statements[j].expr.kind = "Value"
               THEN AmendedOnTop(statements[j].expr.value)
               ELSE NotAmended(statements[j].expr)
    /\ (presult.kind # "NoResult" /\ BraceAfterNestedObject)
         => presult.kind = "Err"
    /\ (AtStatement /\ Statement.kind = "Constant" /\ IsChain(Statement.expr))
         => \A r \in evaluate(Top.table, Value(Statement.expr.value.inner)) :
               r.kind = "Ok" => r.val.tag = "Object"
    /\ result.kind # "Panic"

(* xx {aa = 1} and, on the next line, yy = (xx) {bb = 6}{aa = 2}: the      *)
(* chain on an amending object is evaluated.                               *)
C23_Witness ==
    /\ result.kind = "Ok" /\ Len(statements) = 2
    /\ IsChain(statements[2].expr)
    /\ statements[2].expr.value.inner.tag = "AmendingObject"
    /\ table["yy"] = ObjectV("aa" :> IntV(2) @@ "bb" :> IntV(6))

(* zz {aa {bb = 9}{aa = 2}}: the brace after the nested object is refused. *)
C23_WitnessNested ==
    /\ presult.kind = "Err" /\ BraceAfterNestedObject
    /\ tokens[pos].type = "OpenBrace" /\ DepthAt(pos) = 1

(* What an amending block (name) { ... } or a chained block is laid over:  *)
(* the fields of the object bound to the name, or of the value before the  *)
(* block.                                                                  *)
AmendsAt(e) ==
    e.kind = "Value" /\ e.value.tag \in {"AmendingObject", "AmendedObject"}
BaseOf(variables, v) ==
    IF v.tag = "AmendingObject"
    THEN IF v.name \in DOMAIN variables THEN {Ok(variables[v.name])} ELSE {}
    ELSE evaluate(variables, Value(v.inner))
(* The keys the block defines whose value in the base is an object. *)
NestedKeys(variables, v) ==
    IF \E r \in BaseOf(variables, v) : r.kind = "Ok" /\ r.val.tag = "Object"
    THEN {k \in DOMAIN v.hash.fields :
             /\ k \in DOMAIN TheOk(BaseOf(variables, v)).fields
             /\ TheOk(BaseOf(variables, v)).fields[k].tag = "Object"}
    ELSE {}

(* C24: amendment is shallow.  When an amending or a chained block defines *)
(* a key whose value in the base is an object, the key's value in the      *)
(* result is exactly the value the block gives: a field of the base's      *)
(* nested object is there only if the new value defines it.                *)
C24_Step ==
    (/\ AtStatement /\ Statement.kind = "Constant" /\ AmendsAt(Statement.expr)
     /\ result'.kind = "NoResult" /\ Len(stack') = Len(stack))
    => \A k \in NestedKeys(Top.table, Statement.expr.value) :
          LET new == TheOk(evaluate(Top.table, Statement.expr.value.hash.fields[k]))
              bound == Top'.table[Statement.name].fields[k]
          IN  /\ bound = new
              /\ new.tag = "Object" => DOMAIN bound.fields = DOMAIN new.fields
C24_ShallowAmendment == [][C24_Step]_vars

(* xx {aa {bb = 9}} and, on the next line, yy = (xx) {aa {cc = 2}}, then   *)
(* {aa {cc = 2}} chained: aa has the field cc alone, in both.              *)
C24_Witness ==
    /\ result.kind = "Ok" /\ Len(statements) = 2
    /\ statements[2].expr.value.tag = "AmendedObject"
    /\ statements[2].expr.value.inner.tag = "AmendingObject"
    /\ table["xx"] = ObjectV("aa" :> ObjectV("bb" :> IntV(9)))
    /\ table["yy"] = ObjectV("aa" :> ObjectV("cc" :> IntV(2)))

(***************************************************************************)
(* The order in which ast_to_table goes through the statements.            *)
(***************************************************************************)
(* The constants of a call's argument that come before its loop index. *)
ConstantsBefore(f) ==
    {j \in 1..(f.i - 1) : j <= Len(f.ast) /\ f.ast[j].kind = "Constant"}
(* The call f has gone through the statements before its index, in order,  *)
(* and through none after: it holds the bindings of exactly the constants  *)
(* before the index, and every import before the index was resolved.       *)
InOrder(f) ==
    /\ f.i \in 1..(Len(f.ast) + 1)
    /\ DOMAIN f.table = {f.ast[j].name : j \in ConstantsBefore(f)}
    /\ f.in_body = (ConstantsBefore(f) # {})
    /\ \A j \in 1..(f.i - 1) :
          f.ast[j].kind = "Import"
            => /\ \A k \in 1..(j - 1) : f.ast[k].kind = "Import"
               /\ import(f.ast[j].value, f.ast[j].span).kind = "Ok"
(* The errors the statement the call f is at can fail with. *)
StatementErrors(f) ==
    IF f.ast[f.i].kind = "Constant"
    THEN Failed(evaluate(f.table, f.ast[f.i].expr))
    ELSE Failed({import_arm(f, f.ast[f.i])})

(* C25: ast_to_table goes through the statements in source order; when one *)
(* fails it returns the error of that statement, the first that fails, and *)
(* no statement after it is evaluated, resolved or bound.                  *)
C25_Step ==
    /\ \A l \in DOMAIN stack :
          /\ InOrder(stack[l])
          /\ l < Len(stack)
               => /\ stack[l].i <= Len(stack[l].ast)
                  /\ stack[l].ast[stack[l].i].kind = "Import"
    /\ \A l \in DOMAIN stack \cap DOMAIN stack' :
          /\ stack'[l].ast = stack[l].ast
          /\ stack'[l].i \in {stack[l].i, stack[l].i + 1}
          /\ stack'[l].i = stack[l].i => stack'[l].table = stack[l].table
    /\ (AtStatement /\ result'.kind # "NoResult")
         => /\ result' \in StatementErrors(Top)
            /\ stack' = stack
    /\ (Running /\ result.kind = "Err")
         => /\ result' = result /\ stack' = <<>> /\ table' = table
C25_FirstFailure == [][C25_Step]_vars

(* A document of two constants that both fail on their own: the call has   *)
(* stopped at the first with its error, which the second cannot give.      *)
C25_Witness ==
    /\ Running /\ result.kind = "Err" /\ Len(stack) = 1
    /\ Top.i = 1 /\ Len(Top.ast) = 2
    /\ Top.ast[1].kind = "Constant" /\ Top.ast[2].kind = "Constant"
    /\ result \in StatementErrors(Top)
    /\ Failed(evaluate(Top.table, Top.ast[2].expr)) # {}
    /\ result \notin evaluate(Top.table, Top.ast[2].expr)

(***************************************************************************)
(* Imports that form a cycle: documents of imports, among them files that  *)
(* import each other or themselves.                                        *)
(***************************************************************************)
MaxImports == 2

ImportMenu(b) ==
    << Import(FileA, None, <<b, b + 14>>),
       Import(FileB, None, <<b, b + 14>>),
       Import(FileC, None, <<b, b + 14>>),
       Import(FileMissing, None, <<b, b + 14>>),
       Import(FileLoopA, None, <<b, b + 14>>),
       Import(FileSelf, None, <<b, b + 14>>),
       Import(FileInto, None, <<b, b + 14>>),
       Constant("xx", IntAt(1, b + 5), <<b, b + 6>>) >>
ImportDoc(c) == [i \in DOMAIN c |-> ImportMenu(LineStart(i))[c[i]]]

(* Pkl::parse (lib.rs:27-32) on a document of imports, up to the call of   *)
(* ast_to_table.                                                           *)
ParseImports ==
    /\ ~parsed /\ ~Running /\ ~Aborted
    /\ \E n \in 1..MaxImports : \E c \in Choices(n, Len(ImportMenu(0))) :
          stack' = <<NewFrame(ImportDoc(c))>>
    /\ parsed' = TRUE
    /\ calls' = <<>>
    /\ base' = table
    /\ result' = NoResult
    /\ UNCHANGED table
    /\ UNCHANGED parserVars

NextImports ==
    \/ ParseImports
    \/ StepConstant
    \/ StepImport
    \/ ReturnImport
    \/ ReturnParse
    \/ ReturnErr

SpecImports == Init /\ [][NextImports]_vars
(* The program is sequential: it takes its next step whenever it has one.  *)
LiveImports == SpecImports /\ WF_vars(NextImports)

(* What a call of ast_to_table that is at statement i comes to when the    *)
(* nesting of imports is followed to the depth fuel: it returns Ok, it     *)
(* returns an error, or it is still nested at that depth.  A file is       *)
(* handled the same way each time it is imported, so a nesting deeper than *)
(* the number of files has met some file twice and goes on for ever.       *)
RECURSIVE RunFrom(_, _, _, _, _)
RunFrom(ast, i, variables, in_body, fuel) ==
    IF i > Len(ast) THEN "Ok"
    ELSE IF ast[i].kind = "Constant"
    THEN CHOOSE out \in
            {IF Failed(rs) # {} THEN "Err"
             ELSE CHOOSE o \in {RunFrom(ast, j, v, TRUE, fuel) :
                                  j \in {i + 1},
                                  v \in {MapInsert(variables, ast[i].name,
                                                   TheOk(rs))}} : TRUE :
               rs \in {evaluate(variables, ast[i].expr)}} : TRUE
    ELSE CHOOSE out \in
            {IF r.kind # "Ok" THEN "Err"
             ELSE IF fuel = 0 THEN "Nested"
             ELSE CHOOSE o \in
                     {IF n = "Ok"
                      THEN CHOOSE c \in {RunFrom(ast, j, variables, in_body, fuel) :
                                           j \in {i + 1}} : TRUE
                      ELSE n :
                        n \in {RunFrom(a, 1, EmptyMap, FALSE, g) :
                                 a \in {r.val}, g \in {fuel - 1}}} : TRUE :
               r \in {import_arm([in_body |-> in_body], ast[i])}} : TRUE
Fuel == Cardinality(DOMAIN Files) + 1
(* The imports the document under evaluation has yet to resolve lead into  *)
(* a cycle.                                                                *)
Cyclic ==
    /\ Running /\ ~Raised
    /\ \E f \in {stack[1]} :
          RunFrom(f.ast, f.i, f.table, f.in_body, Fuel) = "Nested"
(* The same file is being imported at two levels of the nesting. *)
Reentered ==
    \E l, k \in DOMAIN stack :
       /\ l < k /\ k < Len(stack)
       /\ stack[l].ast[stack[l].i] = stack[k].ast[stack[k].i]
       /\ stack[l].ast[stack[l].i].kind = "Import"

(* C26, the cycle: each import is resolved by a new call of the whole      *)
(* pipeline with an empty table, whether or not its file is being imported *)
(* already; once the imports ahead lead into a cycle the evaluation never  *)
(* returns, with a result or with an error.                                *)
C26_Step ==
    /\ (AtStatement /\ Statement.kind = "Import"
          /\ import_arm(Top, Statement).kind = "Ok" /\ Len(stack) < MaxDepth)
       => /\ Len(stack') = Len(stack) + 1
          /\ Top' = NewFrame(Files[Statement.value].val)
          /\ result' = result
    /\ Cyclic => Cyclic'
C26_CycleNeverReturns == [][C26_Step]_vars

(* C26, the depth and the acyclic case: in a cycle the nesting grows as    *)
(* deep as the bound on the depth lets it; a document whose imports lead   *)
(* into no cycle, all its files being read and parsed or not, is           *)
(* evaluated to the end.                                                   *)
C26_DepthGrows == Cyclic ~> (Cyclic /\ Len(stack) = MaxDepth)
C26_AcyclicCompletes == (Running /\ ~Cyclic) ~> ~Running
C26_ImportCycles ==
    /\ C26_CycleNeverReturns
    /\ C26_DepthGrows
    /\ C26_AcyclicCompletes

(* import "f.pkl": f.pkl is entered below g.pkl, which f.pkl imports. *)
C26_Witness ==
    /\ Cyclic /\ Len(stack) = MaxDepth
    /\ stack[1].ast[1].value = FileLoopA
    /\ stack[MaxDepth].ast = Files[FileLoopA].val
    /\ stack[MaxDepth].table = EmptyMap
    /\ Reentered

(* The source begins with a name of one letter. *)
OneLetterName ==
    /\ Len(source) >= 2 /\ source[1] \in Letters /\ source[2] = " "

(* C27: a name of one letter is an Identifier token, accepted as the name  *)
(* of a top-level binding and of a field, so that x = { a = 1 } parses to  *)
(* one Constant named x whose object has the field a.                      *)
C27_OneLetterNames ==
    (OneLetterName /\ tokens # <<>>)
      => /\ tokens[1].type = "Identifier" /\ tokens[1].id = source[1]
         /\ presult.kind # "Err"
         /\ (source = OneLetterNames /\ presult.kind = "Ok")
              => /\ Len(statements) = 1
                 /\ statements[1].kind = "Constant" /\ statements[1].name = "x"
                 /\ statements[1].expr.kind = "Value"
                 /\ statements[1].expr.value.tag = "Object"
                 /\ DOMAIN statements[1].expr.value.hash.fields = {"a"}

(* The span of an expression: of the identifier, or of the value. *)
ExprSpan(e) == IF e.kind = "Value" THEN e.value.span ELSE e.span

(* C28: in every Constant parse_pkl returns, the spans have start <= end   *)
(* and the span of the statement contains the span of its value, blocks    *)
(* chained to the value included.                                          *)
C28_StatementSpanContainsValue ==
    presult.kind = "Ok"
      => \A j \in DOMAIN statements :
            /\ statements[j].span[1] <= statements[j].span[2]
            /\ ExprSpan(statements[j].expr)[1] <= ExprSpan(statements[j].expr)[2]
            /\ statements[j].span[1] <= ExprSpan(statements[j].expr)[1]
            /\ ExprSpan(statements[j].expr)[2] <= statements[j].span[2]

(* C29: what parse returns is a function of the source: whatever the order *)
(* in which the fields of an object are gone through, evaluating a         *)
(* statement has one outcome, the same value or the same error (message    *)
(* and span), also when two or more fields of an object fail.              *)
C29_OutcomeDetermined ==
    (AtStatement /\ Statement.kind = "Constant")
      => \A r1, r2 \in evaluate(Top.table, Statement.expr) : r1 = r2

====
